---- MODULE Spec2Model ----
(***************************************************************************)
(* Model of glider-dac's filesystem watcher (glider_dac_watchdog.py): the  *)
(* HandleDeploymentDB event handler, the Deployment/User repository it     *)
(* talks to and the directory tree it watches; and of the scripts that run *)
(* beside it, scripts/archive_datasets.py (rename_archive_filename,        *)
(* make_copy, main), scripts/build_erddap_catalog.py (build_datasets_xml)  *)
(* and scripts/replicatePrivateErddapDeployments.py (poll_erddap, the lock *)
(* file, sync_deployment, retrieve_data), each with a specification of its *)
(* own.                                                                    *)
(*                                                                         *)
(* Python strings are modelled as sequences of one-character strings, so   *)
(* that the substring, prefix, suffix and split tests of the handler are   *)
(* computed the way the code computes them.                                *)
(***************************************************************************)
EXTENDS Integers, Sequences, FiniteSets, TLC

(***************************************************************************)
(* Python str and os.path (posixpath) operations                           *)
(***************************************************************************)

\* The absent value: Python's None, an unset document field.  It is a
\* sequence, like the strings it is compared with.
None == <<"None">>

\* s.startswith(p)
startswith(s, p) == Len(p) <= Len(s) /\ SubSeq(s, 1, Len(p)) = p

\* s.endswith(p)
endswith(s, p) == Len(p) <= Len(s) /\ SubSeq(s, Len(s) - Len(p) + 1, Len(s)) = p

\* p in s   (substring test on str)
str_in(p, s) == \E i \in 0..(Len(s) - Len(p)) : SubSeq(s, i + 1, i + Len(p)) = p

\* s.find(c) + 1 for a one-character c : index of the first c, 0 if there is none
find(s, c) ==
    IF \E i \in 1..Len(s) : s[i] = c
    THEN CHOOSE i \in 1..Len(s) : s[i] = c /\ \A j \in 1..(i - 1) : s[j] # c
    ELSE 0

\* s.rfind(c) + 1 : index of the last c, 0 if there is none
rfind(s, c) ==
    IF \E i \in 1..Len(s) : s[i] = c
    THEN CHOOSE i \in 1..Len(s) : s[i] = c /\ \A j \in (i + 1)..Len(s) : s[j] # c
    ELSE 0

\* s.split(c) : all the pieces between occurrences of c
RECURSIVE str_split(_, _)
str_split(s, c) ==
    LET i == find(s, c)
    IN  IF i = 0 THEN <<s>>
        ELSE <<SubSeq(s, 1, i - 1)>> \o str_split(SubSeq(s, i + 1, Len(s)), c)

\* s.split(c, 1) : at most one split, at the first c
str_split1(s, c) ==
    LET i == find(s, c)
    IN  IF i = 0 THEN <<s>>
        ELSE <<SubSeq(s, 1, i - 1), SubSeq(s, i + 1, Len(s))>>

\* c.join(parts)
RECURSIVE str_join(_, _)
str_join(parts, c) ==
    IF parts = <<>> THEN <<>>
    ELSE IF Len(parts) = 1 THEN parts[1]
    ELSE parts[1] \o <<c>> \o str_join(Tail(parts), c)

Whitespace == {" ", "\n", "\t"}

\* s.lstrip(), s.rstrip(), s.strip()
RECURSIVE lstrip(_)
lstrip(s) == IF s # <<>> /\ s[1] \in Whitespace THEN lstrip(Tail(s)) ELSE s

RECURSIVE rstrip(_)
rstrip(s) ==
    IF s # <<>> /\ s[Len(s)] \in Whitespace THEN rstrip(SubSeq(s, 1, Len(s) - 1)) ELSE s

strip(s) == rstrip(lstrip(s))

\* file.readline() on a freshly opened file with contents s : up to and
\* including the first newline
readline(s) ==
    LET i == find(s, "\n")
    IN  IF i = 0 THEN s ELSE SubSeq(s, 1, i)

\* The sequence q with its empty elements removed.
RECURSIVE nonempty(_)
nonempty(q) ==
    IF q = <<>> THEN <<>>
    ELSE (IF q[1] = <<>> THEN <<>> ELSE <<q[1]>>) \o nonempty(Tail(q))

\* Length of the longest common prefix of two sequences of components.
RECURSIVE commonprefix(_, _)
commonprefix(a, b) ==
    IF a # <<>> /\ b # <<>> /\ a[1] = b[1]
    THEN 1 + commonprefix(Tail(a), Tail(b))
    ELSE 0

\* Faulty variant: the start is cut off as a string prefix, not as a run of
\* path components.
relpath_by_prefix(path, start) ==
    LET start_list == nonempty(str_split(start, "/"))
        path_list == nonempty(str_split(path, "/"))
        i == commonprefix(start_list, path_list)
        rel_list == [k \in 1..(Len(start_list) - i) |-> <<".", ".">>]
                        \o SubSeq(path_list, i + 1, Len(path_list))
        cut == SubSeq(path, Len(start) + 1, Len(path))
    IN  IF startswith(path, start) /\ cut # <<>>
        THEN (IF cut[1] = "/" THEN Tail(cut) ELSE cut)
        ELSE IF rel_list = <<>> THEN <<".">> ELSE str_join(rel_list, "/")

\* os.path.relpath(path, start) for absolute, normalised path and start
relpath(path, start) ==
    LET start_list == nonempty(str_split(start, "/"))
        path_list == nonempty(str_split(path, "/"))
        i == commonprefix(start_list, path_list)
        rel_list == [k \in 1..(Len(start_list) - i) |-> <<".", ".">>]
                        \o SubSeq(path_list, i + 1, Len(path_list))
    IN  IF rel_list = <<>> THEN <<".">> ELSE str_join(rel_list, "/")

\* head.rstrip('/')
RECURSIVE rstrip_sep(_)
rstrip_sep(s) ==
    IF s # <<>> /\ s[Len(s)] = "/" THEN rstrip_sep(SubSeq(s, 1, Len(s) - 1)) ELSE s

\* os.path.split(p) : <<head, tail>>
path_split(p) ==
    LET i == rfind(p, "/")
        head == SubSeq(p, 1, i)
        tail == SubSeq(p, i + 1, Len(p))
    IN  IF head # <<>> /\ (\E k \in 1..Len(head) : head[k] # "/")
        THEN <<rstrip_sep(head), tail>>
        ELSE <<head, tail>>

\* os.path.join(a, b)
path_join(a, b) ==
    IF startswith(b, <<"/">>) THEN b
    ELSE IF a = <<>> \/ endswith(a, <<"/">>) THEN a \o b
    ELSE a \o <<"/">> \o b

\* os.path.splitext(p) : <<root, ext>>; leading dots of the base name are
\* not an extension
splitext(p) ==
    LET sepIndex == rfind(p, "/")
        dotIndex == rfind(p, ".")
    IN  IF dotIndex > sepIndex
           /\ \E k \in (sepIndex + 1)..(dotIndex - 1) : p[k] # "."
        THEN <<SubSeq(p, 1, dotIndex - 1), SubSeq(p, dotIndex, Len(p))>>
        ELSE <<p, <<>>>>


(***************************************************************************)
(* String literals of the handler                                          *)
(***************************************************************************)

DOT == <<".">>
SEP == <<"/">>
WMOID_TXT == <<"w", "m", "o", "i", "d", ".", "t", "x", "t">>
EXTRA_ATTS_JSON == <<"e", "x", "t", "r", "a", "_", "a", "t", "t", "s", ".", "j", "s", "o", "n">>
NC == <<".", "n", "c">>
DELAYED == <<"-", "d", "e", "l", "a", "y", "e", "d">>
NAVOCEANO == <<"n", "a", "v", "o", "c", "e", "a", "n", "o">>
HURRICANES == <<"h", "u", "r", "r", "i", "c", "a", "n", "e", "s", "-",
                "2", "0", "2", "3", "0", "6", "0", "1", "T", "0", "0", "0", "0">>
\* "navoceano/hurricanes-20230601T0000", the unsorted intake directory
NAVO_UNSORTED == NAVOCEANO \o SEP \o HURRICANES

(***************************************************************************)
(* The watched tree: the paths the uploaders and the watcher work on       *)
(***************************************************************************)

\* self.base : the watched root (an absolute real path)
base == <<"/", "d">>

U_a == <<"a">>
U_b == <<"b">>
N_g1 == <<"g", "-", "1">>
N_hdelayed == <<"h", "-", "d", "e", "l", "a", "y", "e", "d">>
N_sub == <<"s">>
F_wmoid_tmp == <<"w", "m", "o", "i", "d", ".", "t", "m", "p">>
F_x_nc == <<"x", ".", "n", "c">>
F_dot_x_nc == <<".", "x", ".", "n", "c">>
F_u_1Z_nc == <<"u", "_", "1", "Z", ".", "n", "c">>
C_one == <<"1", "\n">>
C_two == <<" ", "2", " ", "\n">>
C_empty == <<>>

\* base/part1/part2/...
Under(parts) == base \o SEP \o str_join(parts, "/")

D_a == Under(<<U_a>>)
D_b == Under(<<U_b>>)
D_navoceano == Under(<<NAVOCEANO>>)
D_intake == Under(<<NAVOCEANO, HURRICANES>>)
D_a_g1 == Under(<<U_a, N_g1>>)
D_a_g1_s == Under(<<U_a, N_g1, N_sub>>)
D_a_hd == Under(<<U_a, N_hdelayed>>)
D_a_hd_s == Under(<<U_a, N_hdelayed, N_sub>>)
D_b_g1 == Under(<<U_b, N_g1>>)
D_b_g1_s == Under(<<U_b, N_g1, N_sub>>)

\* Directories that exist before the watcher starts and are never removed.
FixedDirs == {D_a, D_b, D_navoceano, D_intake}

\* Directories the uploaders create and remove.
DirUniverse == {D_a_g1, D_a_g1_s, D_a_hd, D_a_hd_s, D_b_g1, D_b_g1_s}

\* Files the uploaders write, move and delete.
FileUniverse ==
    {Under(<<U_a, N_g1, WMOID_TXT>>), Under(<<U_a, N_g1, F_wmoid_tmp>>),
     Under(<<U_a, N_g1, F_x_nc>>), Under(<<U_a, N_g1, F_dot_x_nc>>),
     Under(<<U_a, N_hdelayed, F_x_nc>>),
     Under(<<NAVOCEANO, HURRICANES, F_u_1Z_nc>>)}

\* What an uploader writes into a file of the given name.
ContentsFor(p) ==
    IF path_split(p)[2] \in {WMOID_TXT, F_wmoid_tmp} THEN {C_one, C_two} ELSE {C_empty}

\* Renames the uploaders perform: a temporary upload moved into place.
MoveUniverse == {<<Under(<<U_a, N_g1, F_wmoid_tmp>>), Under(<<U_a, N_g1, WMOID_TXT>>)>>}

\* os.path.dirname(p)
dirname(p) == path_split(p)[1]

\* os.path.basename(p)
basename(p) == path_split(p)[2]


(***************************************************************************)
(* State                                                                   *)
(***************************************************************************)

VARIABLES
    users,        \* the User collection of the repository
    deployments,  \* the Deployment collection of the repository
    dirs,         \* directories that exist under the watched root
    files,        \* regular files: path -> contents, None when absent
    symlinks,     \* symbolic links: records [link, target]
    flags,        \* names of the flag files present in self.flagsdir
    queue,        \* filesystem events reported by the OS, not yet dispatched
    observer,     \* "running", or "dead" once a handler let an exception out
    last,         \* what the handling of the last dispatched event did
    ensured,      \* history: the <<username, deployment_name>> that
                  \* create_deployment_if_nonexistent was called with while
                  \* the User existed
    created,      \* history: deployment_dir of the Deployments the watcher
                  \* created on a directory-created event
    now,          \* the clock: the number of filesystem operations so far
    archive,      \* scripts/archive_datasets.py : the run of the archive script
    catalog,      \* scripts/build_erddap_catalog.py : the catalog builder
    replicate     \* scripts/replicatePrivateErddapDeployments.py : the
                  \* replicate processes, their lock file and the servers

\* The state of the scripts that run beside the watcher.
script_vars == <<archive, catalog, replicate>>

vars == <<users, deployments, dirs, files, symlinks, flags, queue, observer,
          last, ensured, created, now, script_vars>>

\* A script that is not running.
Idle == [script |-> "idle"]

\* Longest run of uploader operations explored.
MaxOps == 3

\* Most events waiting for the watcher when an uploader operates.
MaxQueue == 2

(***************************************************************************)
(* The Deployment/User repository (glider_dac.db): find_one, save, delete  *)
(***************************************************************************)

\* The _id of a document that was never saved.
NoId == 0

\* What find_one returns when no document matches: Python's None, here a
\* document with no field but the _id no saved document has.
NoDocument == [id |-> NoId]

\* db.Collection.find_one({field: value}) : the matching document, or None
find_one(coll, field, value) ==
    IF \E x \in coll : x[field] = value
    THEN CHOOSE x \in coll : x[field] = value
    ELSE NoDocument

\* db.Deployment() : a new document, not yet persisted, with the defaults
NewDeployment ==
    [id |-> NoId, name |-> None, user_id |-> None, deployment_dir |-> None,
     glider_name |-> None, wmo_id |-> None, delayed_mode |-> FALSE,
     updated |-> None]

\* The id the repository gives the next inserted document.
FreshId(coll) ==
    IF coll = {} THEN 1
    ELSE 1 + (CHOOSE m \in {x.id : x \in coll} : \A x \in coll : x.id <= m)

\* document.save() : upsert by id, stamping `updated`
save(coll, doc) ==
    LET stamped == [doc EXCEPT !.updated = now]
    IN  IF doc.id = NoId
        THEN coll \cup {[stamped EXCEPT !.id = FreshId(coll)]}
        ELSE {x \in coll : x.id # doc.id} \cup {stamped}

\* document.delete()
delete(coll, doc) == {x \in coll : x.id # doc.id}

\* A User document.
UserDoc(username) == [id |-> <<"uid">> \o username, username |-> username]

(***************************************************************************)
(* Filesystem events (watchdog.events)                                     *)
(***************************************************************************)

DirCreatedEvent(p) ==
    [event_type |-> "created", is_directory |-> TRUE, src_path |-> p, dest_path |-> None]
DirDeletedEvent(p) ==
    [event_type |-> "deleted", is_directory |-> TRUE, src_path |-> p, dest_path |-> None]
FileCreatedEvent(p) ==
    [event_type |-> "created", is_directory |-> FALSE, src_path |-> p, dest_path |-> None]
FileModifiedEvent(p) ==
    [event_type |-> "modified", is_directory |-> FALSE, src_path |-> p, dest_path |-> None]
FileDeletedEvent(p) ==
    [event_type |-> "deleted", is_directory |-> FALSE, src_path |-> p, dest_path |-> None]
FileMovedEvent(p, q) ==
    [event_type |-> "moved", is_directory |-> FALSE, src_path |-> p, dest_path |-> q]

(***************************************************************************)
(* HandleDeploymentDB                                                      *)
(*                                                                         *)
(* A handler runs on a "world" w: the repository, the filesystem and the   *)
(* flag directory as the handler has changed them so far, together with a  *)
(* record of what it did (documents saved, flags touched, calls of         *)
(* create_deployment_if_nonexistent, events its own filesystem calls       *)
(* cause, the exception that left it).  A handler yields the set of worlds *)
(* it can end in.                                                          *)
(***************************************************************************)

\* No exception left the handler.
NoException == "NoException"

StartWorld ==
    [deployments |-> deployments, dirs |-> dirs, symlinks |-> symlinks,
     flags |-> flags, emitted |-> <<>>, saves |-> <<>>, touched |-> <<>>,
     calls |-> <<>>, lookups |-> <<>>, caught |-> <<>>, raised |-> NoException]

\* Whether open(p) finds a file: a regular file, or a link to one.
RECURSIVE exists(_, _)
exists(w, p) ==
    \/ p \in DOMAIN files /\ files[p] # None
    \/ \E l \in w.symlinks : l.link = p /\ exists([w EXCEPT !.symlinks = @ \ {l}], l.target)

\* What open(p).read() gives.
RECURSIVE contents(_, _)
contents(w, p) ==
    IF p \in DOMAIN files /\ files[p] # None THEN files[p]
    ELSE LET l == CHOOSE l \in w.symlinks : l.link = p
         IN  contents([w EXCEPT !.symlinks = @ \ {l}], l.target)

\* os.path.isdir(p)
isdir(w, p) == p \in w.dirs

\* os.path.lexists(p)
lexists(w, p) ==
    \/ p \in w.dirs
    \/ p \in DOMAIN files /\ files[p] # None
    \/ \E l \in w.symlinks : l.link = p

\* HandleDeploymentDB.touch_erddap
touch_erddap(w, deployment_name) ==
    [w EXCEPT !.flags = @ \cup {deployment_name},
              !.touched = Append(@, deployment_name)]

\* The document create_deployment_if_nonexistent builds before it saves.
built_deployment(user_id, username, deployment_name) ==
    [NewDeployment EXCEPT
        !.user_id = user_id,
        !.name = deployment_name,
        !.deployment_dir = path_join(username, deployment_name),
        !.glider_name = str_split1(deployment_name, "-")[1],
        !.updated = now]

\* Faulty variant: the existing Deployment is looked up by deployment_dir
\* instead of by name.
create_deployment_lookup_by_dir(w, path_parts) ==
    LET deployment_name == path_parts[2]
        username == path_split(path_parts[1])[2]
        called == [w EXCEPT !.calls = Append(@, <<username, deployment_name>>)]
        deployment == find_one(w.deployments, "deployment_dir",
                               path_join(username, deployment_name))
        user == find_one(users, "username", username)
        doc == built_deployment(user.id, username, deployment_name)
    IN  IF deployment # NoDocument \/ user = NoDocument THEN called
        ELSE [called EXCEPT !.deployments = save(@, doc),
                            !.saves = Append(@, doc.deployment_dir)]

\* Faulty variant: no lookup of an existing Deployment at all.
create_deployment_always(w, path_parts) ==
    LET deployment_name == path_parts[2]
        username == path_split(path_parts[1])[2]
        called == [w EXCEPT !.calls = Append(@, <<username, deployment_name>>)]
        user == find_one(users, "username", username)
        doc == built_deployment(user.id, username, deployment_name)
    IN  IF user = NoDocument THEN called
        ELSE [called EXCEPT !.deployments = save(@, doc),
                            !.saves = Append(@, doc.deployment_dir)]

\* Faulty variant: the Deployment is saved whether or not the User exists.
create_deployment_without_user(w, path_parts) ==
    LET deployment_name == path_parts[2]
        username == path_split(path_parts[1])[2]
        called == [w EXCEPT !.calls = Append(@, <<username, deployment_name>>)]
        deployment == find_one(w.deployments, "name", deployment_name)
        user == find_one(users, "username", username)
        doc == built_deployment(IF user = NoDocument THEN None ELSE user.id,
                                username, deployment_name)
    IN  IF deployment # NoDocument THEN called
        ELSE [called EXCEPT !.deployments = save(@, doc),
                            !.saves = Append(@, doc.deployment_dir)]

\* HandleDeploymentDB.create_deployment_if_nonexistent.  delayed_mode is
\* assigned to the document in memory after save() and is not saved again,
\* so the persisted document keeps the value it had when save() ran.
create_deployment_if_nonexistent(w, path_parts) ==
    LET deployment_name == path_parts[2]
        username == path_split(path_parts[1])[2]
        called == [w EXCEPT !.calls = Append(@, <<username, deployment_name>>)]
        deployment == find_one(w.deployments, "name", deployment_name)
    IN  IF deployment # NoDocument THEN called
        ELSE
        LET user == find_one(users, "username", username)
        IN  IF user = NoDocument THEN called
            ELSE
            LET doc == built_deployment(user.id, username, deployment_name)
                in_memory == [doc EXCEPT !.delayed_mode = endswith(deployment_name, DELAYED)]
            IN  [called EXCEPT !.deployments = save(@, doc),
                               !.saves = Append(@, doc.deployment_dir)]


\* glob.iglob(os.path.join(navo_directory, f"{glider_callsign}*")) filtered by
\* os.path.isdir : the existing directories the loop can stop at.  The order
\* of a directory listing is arbitrary, so any of them can be the first.
possible_existing_dirs(w, navo_directory, glider_callsign) ==
    {d \in w.dirs :
        /\ dirname(d) = navo_directory
        /\ startswith(path_split(d)[2], glider_callsign)
        /\ ~startswith(path_split(d)[2], DOT)}

\* Faulty variant: the link is made without a Deployment being ensured for
\* the directory first.
navoceano_link_without_deployment(w, rel_path, navo_deployment_directory, link_name) ==
    LET link == path_join(navo_deployment_directory, link_name)
        target == path_join(base, rel_path)
        w2 == IF ~isdir(w, navo_deployment_directory)
              THEN [w EXCEPT !.dirs = @ \cup {navo_deployment_directory},
                             !.emitted = Append(@, DirCreatedEvent(navo_deployment_directory))]
              ELSE w
    IN  IF lexists(w, navo_deployment_directory) /\ ~isdir(w, navo_deployment_directory)
        THEN [w EXCEPT !.caught = Append(@, "FileExistsError")]
        ELSE IF lexists(w2, link)
        THEN [w2 EXCEPT !.caught = Append(@, "FileExistsError")]
        ELSE [w2 EXCEPT !.symlinks = @ \cup {[link |-> link, target |-> target]},
                        !.emitted = Append(@, FileCreatedEvent(link))]

\* Faulty variant: the OSError of os.makedirs and os.symlink is not caught.
navoceano_link_unguarded(w, rel_path, navo_deployment_directory, link_name) ==
    LET w1 == create_deployment_if_nonexistent(w, path_split(navo_deployment_directory))
        link == path_join(navo_deployment_directory, link_name)
        target == path_join(base, rel_path)
        made == ~isdir(w1, navo_deployment_directory)
        w2 == IF made
              THEN [w1 EXCEPT !.dirs = @ \cup {navo_deployment_directory},
                              !.emitted = Append(@, DirCreatedEvent(navo_deployment_directory))]
              ELSE w1
    IN  IF lexists(w1, navo_deployment_directory) /\ ~isdir(w1, navo_deployment_directory)
        THEN [w1 EXCEPT !.raised = "FileExistsError"]
        ELSE IF lexists(w2, link)
        THEN [w2 EXCEPT !.raised = "FileExistsError"]
        ELSE [w2 EXCEPT !.symlinks = @ \cup {[link |-> link, target |-> target]},
                        !.emitted = Append(@, FileCreatedEvent(link))]

\* file_moved_or_created, lines 39-75 : a file of the unsorted NAVOCEANO
\* intake directory, with navo_deployment_directory already chosen
navoceano_link(w, rel_path, navo_deployment_directory, link_name) ==
    LET w1 == create_deployment_if_nonexistent(w, path_split(navo_deployment_directory))
        link == path_join(navo_deployment_directory, link_name)
        target == path_join(base, rel_path)
        \* os.makedirs(navo_deployment_directory, exist_ok=True)
        made == ~isdir(w1, navo_deployment_directory)
        w2 == IF made
              THEN [w1 EXCEPT !.dirs = @ \cup {navo_deployment_directory},
                              !.emitted = Append(@, DirCreatedEvent(navo_deployment_directory))]
              ELSE w1
    IN  IF lexists(w1, navo_deployment_directory) /\ ~isdir(w1, navo_deployment_directory)
        \* os.makedirs: FileExistsError, an OSError: caught and logged
        THEN [w1 EXCEPT !.caught = Append(@, "FileExistsError")]
        ELSE IF lexists(w2, link)
        \* os.symlink: FileExistsError, an OSError: caught and logged
        THEN [w2 EXCEPT !.caught = Append(@, "FileExistsError")]
        ELSE [w2 EXCEPT !.symlinks = @ \cup {[link |-> link, target |-> target]},
                        !.emitted = Append(@, FileCreatedEvent(link))]

\* Faulty variant: the name is split at its last underscore.
navoceano_unsorted_rsplit(w, rel_path, path_parts) ==
    IF ~endswith(path_parts[2], NC) THEN {w}
    ELSE
    LET deployment_name_raw == splitext(path_parts[2])[1]
        extension == splitext(path_parts[2])[2]
        at == rfind(deployment_name_raw, "_")
    IN  IF at = 0
        THEN {[w EXCEPT !.caught = Append(@, "ValueError"),
                        !.raised = "UnboundLocalError"]}
        ELSE
        LET glider_callsign == SubSeq(deployment_name_raw, 1, at - 1)
            date_str_tz == SubSeq(deployment_name_raw, at + 1, Len(deployment_name_raw))
            date_str == IF endswith(date_str_tz, <<"Z">>)
                        THEN SubSeq(date_str_tz, 1, Len(date_str_tz) - 1)
                        ELSE date_str_tz
            navo_directory == path_join(base, NAVOCEANO)
            existing == possible_existing_dirs(w, navo_directory, glider_callsign)
            candidates ==
                IF existing # {} THEN existing
                ELSE {path_join(base, NAVOCEANO \o SEP \o glider_callsign \o <<"-">> \o date_str)}
            link_name == glider_callsign \o <<"_">> \o date_str \o extension
        IN  {navoceano_link(w, rel_path, d, link_name) : d \in candidates}

navoceano_unsorted(w, rel_path, path_parts) ==
    IF ~endswith(path_parts[2], NC) THEN {w}
    ELSE
    LET deployment_name_raw == splitext(path_parts[2])[1]
        extension == splitext(path_parts[2])[2]
        pieces == str_split1(deployment_name_raw, "_")
    IN  IF Len(pieces) # 2
        \* ValueError is caught and logged; date_str_tz is then read unbound
        THEN {[w EXCEPT !.caught = Append(@, "ValueError"),
                        !.raised = "UnboundLocalError"]}
        ELSE
        LET glider_callsign == pieces[1]
            date_str_tz == pieces[2]
            date_str == IF endswith(date_str_tz, <<"Z">>)
                        THEN SubSeq(date_str_tz, 1, Len(date_str_tz) - 1)
                        ELSE date_str_tz
            navo_directory == path_join(base, NAVOCEANO)
            existing == possible_existing_dirs(w, navo_directory, glider_callsign)
            candidates ==
                IF existing # {} THEN existing
                ELSE {path_join(base, NAVOCEANO \o SEP \o glider_callsign \o <<"-">> \o date_str)}
            link_name == glider_callsign \o <<"_">> \o date_str \o extension
        IN  {navoceano_link(w, rel_path, d, link_name) : d \in candidates}

\* Faulty variant: the flag is touched for delayed-mode deployments too.
deployment_file_always_touch(w, event, path_parts) ==
    LET deployment == find_one(w.deployments, "deployment_dir", path_parts[1])
        saved == [w EXCEPT !.deployments = save(@, deployment),
                           !.saves = Append(@, deployment.deployment_dir)]
        segments == str_split(path_parts[1], "/")
    IN  IF deployment = NoDocument \/ ~str_in(NC, splitext(path_parts[2])[2]) THEN w
        ELSE touch_erddap(saved, segments[Len(segments)])

\* Faulty variant: a file of a directory without a Deployment touches the
\* flag named after the directory all the same.
deployment_file_touch_unknown(w, event, path_parts) ==
    LET deployment == find_one(w.deployments, "deployment_dir", path_parts[1])
        looked == [w EXCEPT !.lookups = Append(@, path_parts[1])]
        saved == [looked EXCEPT !.deployments = save(@, deployment),
                                !.saves = Append(@, deployment.deployment_dir)]
        segments == str_split(path_parts[1], "/")
    IN  IF deployment = NoDocument THEN touch_erddap(looked, segments[Len(segments)])
        ELSE IF ~str_in(NC, splitext(path_parts[2])[2]) THEN looked
        ELSE IF deployment.delayed_mode THEN saved
        ELSE touch_erddap(saved, segments[Len(segments)])

\* Faulty variant: extra_atts.json is handled like a data file, so the flag
\* is touched as well.
deployment_file_extra_atts_touch(w, event, path_parts) ==
    LET deployment == find_one(w.deployments, "deployment_dir", path_parts[1])
        looked == [w EXCEPT !.lookups = Append(@, path_parts[1])]
        saved == [looked EXCEPT !.deployments = save(@, deployment),
                                !.saves = Append(@, deployment.deployment_dir)]
        segments == str_split(path_parts[1], "/")
    IN  IF deployment = NoDocument THEN looked
        ELSE IF path_parts[2] = EXTRA_ATTS_JSON \/ str_in(NC, splitext(path_parts[2])[2])
        THEN touch_erddap(saved, segments[Len(segments)])
        ELSE looked

\* Faulty variant: the Deployment is saved for a file of any name.
deployment_file_save_any(w, event, path_parts) ==
    LET deployment == find_one(w.deployments, "deployment_dir", path_parts[1])
        looked == [w EXCEPT !.lookups = Append(@, path_parts[1])]
    IN  IF deployment = NoDocument THEN looked
        ELSE [looked EXCEPT !.deployments = save(@, deployment),
                            !.saves = Append(@, deployment.deployment_dir)]

\* file_moved_or_created, lines 77-108 : a file of a deployment directory
deployment_file(w, event, path_parts) ==
    LET deployment == find_one(w.deployments, "deployment_dir", path_parts[1])
        looked == [w EXCEPT !.lookups = Append(@, path_parts[1])]
    IN  IF deployment = NoDocument THEN looked
        ELSE IF path_parts[2] = WMOID_TXT
        THEN IF ~exists(w, event.src_path)
             THEN [looked EXCEPT !.raised = "FileNotFoundError"]
             ELSE LET read == [deployment EXCEPT
                                  !.wmo_id = strip(readline(contents(w, event.src_path)))]
                  IN  [looked EXCEPT !.deployments = save(@, read),
                                     !.saves = Append(@, read.deployment_dir)]
        ELSE IF path_parts[2] = EXTRA_ATTS_JSON
        THEN [looked EXCEPT !.deployments = save(@, deployment),
                            !.saves = Append(@, deployment.deployment_dir)]
        ELSE
        LET ext == splitext(path_parts[2])[2]
            saved == [looked EXCEPT !.deployments = save(@, deployment),
                                    !.saves = Append(@, deployment.deployment_dir)]
            segments == str_split(path_parts[1], "/")
        IN  IF ~str_in(NC, ext) THEN looked
            ELSE IF deployment.delayed_mode THEN saved
            ELSE touch_erddap(saved, segments[Len(segments)])

\* Faulty variant: the NAVOCEANO branch does not return, so an intake file
\* goes on to be handled as a file of a deployment directory.
file_moved_or_created_fall_through(w, event) ==
    IF ~str_in(base, event.src_path) THEN {w}
    ELSE
    LET rel_path == IF event.event_type = "moved"
                    THEN relpath(event.dest_path, base)
                    ELSE relpath(event.src_path, base)
        path_parts == path_split(rel_path)
    IN  IF startswith(path_parts[2], DOT) THEN {w}
        ELSE IF path_parts[1] = NAVO_UNSORTED
        THEN {IF u.raised = NoException THEN deployment_file(u, event, path_parts) ELSE u :
                 u \in navoceano_unsorted(w, rel_path, path_parts)}
        ELSE {deployment_file(w, event, path_parts)}

\* HandleDeploymentDB.file_moved_or_created
file_moved_or_created(w, event) ==
    IF ~str_in(base, event.src_path) THEN {w}
    ELSE
    LET rel_path == IF event.event_type = "moved"
                    THEN relpath(event.dest_path, base)
                    ELSE relpath(event.src_path, base)
        path_parts == path_split(rel_path)
    IN  IF startswith(path_parts[2], DOT) THEN {w}
        ELSE IF path_parts[1] = NAVO_UNSORTED
        THEN navoceano_unsorted(w, rel_path, path_parts)
        ELSE {deployment_file(w, event, path_parts)}

\* HandleDeploymentDB.on_moved
on_moved(w, event) ==
    IF ~event.is_directory THEN file_moved_or_created(w, event) ELSE {w}

\* HandleDeploymentDB.on_modified
on_modified(w, event) ==
    IF ~event.is_directory THEN file_moved_or_created(w, event) ELSE {w}

\* HandleDeploymentDB.on_created
on_created(w, event) ==
    IF event.is_directory
    THEN IF ~str_in(base, event.src_path) THEN {w}
         ELSE
         LET rel_path == relpath(event.src_path, base)
             path_parts == str_split(rel_path, "/")
         IN  IF Len(path_parts) # 3 THEN {w}
             ELSE {create_deployment_if_nonexistent(w, path_parts)}
    ELSE file_moved_or_created(w, event)

\* Faulty variant: the Deployment to delete is looked up by the name in the
\* second component of the path.
on_deleted_by_name(w, event) ==
    IF event.is_directory
    THEN IF ~str_in(base, event.src_path) THEN {w}
         ELSE
         LET rel_path == relpath(event.src_path, base)
             path_parts == str_split(rel_path, "/")
             deployment == find_one(w.deployments, "name", path_parts[2])
         IN  IF Len(path_parts) # 3 THEN {w}
             ELSE IF deployment = NoDocument THEN {w}
             ELSE {[w EXCEPT !.deployments = delete(@, deployment)]}
    ELSE {w}

\* HandleDeploymentDB.on_deleted
on_deleted(w, event) ==
    IF event.is_directory
    THEN IF ~str_in(base, event.src_path) THEN {w}
         ELSE
         LET rel_path == relpath(event.src_path, base)
             path_parts == str_split(rel_path, "/")
             deployment == find_one(w.deployments, "deployment_dir", event.src_path)
         IN  IF Len(path_parts) # 3 THEN {w}
             ELSE IF deployment = NoDocument THEN {w}
             ELSE {[w EXCEPT !.deployments = delete(@, deployment)]}
    ELSE {w}


(***************************************************************************)
(* Initial states                                                          *)
(***************************************************************************)

\* A Deployment as the web application registers it (spec section 3), its
\* directory created along with it.
WebDeployment(id, username, deployment_name) ==
    [id |-> id, name |-> deployment_name, user_id |-> UserDoc(username).id,
     deployment_dir |-> path_join(username, deployment_name),
     glider_name |-> str_split1(deployment_name, "-")[1], wmo_id |-> None,
     delayed_mode |-> endswith(deployment_name, DELAYED), updated |-> 0]

\* The repositories and trees the watcher is started on: an empty
\* repository, or one with two registered deployments of user a.
InitialRepositories ==
    {[deployments |-> {}, dirs |-> FixedDirs],
     [deployments |-> {WebDeployment(1, U_a, N_g1), WebDeployment(2, U_a, N_hdelayed)},
      dirs |-> FixedDirs \cup {D_a_g1, D_a_hd}]}

\* No event was dispatched yet.
NothingHandled ==
    [event |-> None, saves |-> <<>>, touched |-> <<>>, calls |-> <<>>,
     repeated |-> {}, lookups |-> <<>>, caught |-> <<>>, raised |-> NoException]

Init ==
    /\ users = {UserDoc(U_a), UserDoc(NAVOCEANO)}
    /\ \E r \in InitialRepositories : deployments = r.deployments /\ dirs = r.dirs
    /\ files = [p \in FileUniverse |-> None]
    /\ symlinks = {}
    /\ flags = {}
    /\ queue = <<>>
    /\ observer = "running"
    /\ last = NothingHandled
    /\ ensured = {}
    /\ created = {}
    /\ now = 0
    /\ archive = Idle
    /\ catalog = Idle
    /\ replicate = Idle

(***************************************************************************)
(* The uploaders and the operator: what happens to the tree and to the     *)
(* User collection outside the watcher.  Each filesystem operation is      *)
(* reported to the watcher as one event.                                   *)
(***************************************************************************)

CanOperate == now < MaxOps /\ Len(queue) < MaxQueue

Report(event) ==
    /\ queue' = Append(queue, event)
    /\ now' = now + 1
    /\ UNCHANGED <<users, deployments, symlinks, flags, observer, last, ensured,
                   created, script_vars>>

\* Nothing but p itself lies at or under directory p.
IsEmptyDir(p) ==
    /\ \A d \in dirs : dirname(d) # p
    /\ \A f \in DOMAIN files : files[f] # None => dirname(f) # p
    /\ \A l \in symlinks : dirname(l.link) # p

Mkdir(p) ==
    /\ CanOperate
    /\ p \notin dirs
    /\ dirname(p) \in dirs
    /\ dirs' = dirs \cup {p}
    /\ UNCHANGED files
    /\ Report(DirCreatedEvent(p))

Rmdir(p) ==
    /\ CanOperate
    /\ p \in dirs
    /\ IsEmptyDir(p)
    /\ dirs' = dirs \ {p}
    /\ UNCHANGED files
    /\ Report(DirDeletedEvent(p))

WriteFile(p, c) ==
    /\ CanOperate
    /\ dirname(p) \in dirs
    /\ files' = [files EXCEPT ![p] = c]
    /\ UNCHANGED dirs
    /\ Report(IF files[p] = None THEN FileCreatedEvent(p) ELSE FileModifiedEvent(p))

MoveFile(p, q) ==
    /\ CanOperate
    /\ files[p] # None
    /\ dirname(q) \in dirs
    /\ files' = [files EXCEPT ![q] = files[p], ![p] = None]
    /\ UNCHANGED dirs
    /\ Report(FileMovedEvent(p, q))

DeleteFile(p) ==
    /\ CanOperate
    /\ files[p] # None
    /\ files' = [files EXCEPT ![p] = None]
    /\ UNCHANGED dirs
    /\ Report(FileDeletedEvent(p))

\* The operator registers a user out of band.
CreateUser(username) ==
    /\ UserDoc(username) \notin users
    /\ users' = users \cup {UserDoc(username)}
    /\ UNCHANGED <<deployments, dirs, files, symlinks, flags, queue, observer,
                   last, ensured, created, now, script_vars>>

(***************************************************************************)
(* The observer thread (main): takes the events one at a time, in order,   *)
(* and runs the handler of the event's type to completion.  An exception   *)
(* that leaves a handler ends the thread.                                  *)
(***************************************************************************)

Handle(outcomes) ==
    \E w \in outcomes :
        /\ deployments' = w.deployments
        /\ dirs' = w.dirs
        /\ symlinks' = w.symlinks
        /\ flags' = w.flags
        /\ queue' = Tail(queue) \o w.emitted
        /\ observer' = IF w.raised = NoException THEN "running" ELSE "dead"
        /\ last' = [event |-> Head(queue), saves |-> w.saves, touched |-> w.touched,
                    calls |-> w.calls,
                    repeated |-> {w.calls[i] : i \in 1..Len(w.calls)} \cap ensured,
                    lookups |-> w.lookups, caught |-> w.caught, raised |-> w.raised]
        /\ ensured' = ensured \cup
               {w.calls[i] : i \in {j \in 1..Len(w.calls) :
                                       find_one(users, "username", w.calls[j][1]) # NoDocument}}
        /\ created' = created \cup
               {d.deployment_dir : d \in
                   {x \in w.deployments :
                       /\ Head(queue).event_type = "created"
                       /\ Head(queue).is_directory
                       /\ \A y \in deployments : y.id # x.id}}
        /\ UNCHANGED <<users, files, now, script_vars>>

Dispatching(event_type) ==
    observer = "running" /\ queue # <<>> /\ Head(queue).event_type = event_type

OnCreated == Dispatching("created") /\ Handle(on_created(StartWorld, Head(queue)))

OnDeleted == Dispatching("deleted") /\ Handle(on_deleted(StartWorld, Head(queue)))

OnModified == Dispatching("modified") /\ Handle(on_modified(StartWorld, Head(queue)))

OnMoved == Dispatching("moved") /\ Handle(on_moved(StartWorld, Head(queue)))

Next ==
    \/ \E p \in DirUniverse : Mkdir(p)
    \/ \E p \in DirUniverse : Rmdir(p)
    \/ \E p \in FileUniverse : \E c \in ContentsFor(p) : WriteFile(p, c)
    \/ \E m \in MoveUniverse : MoveFile(m[1], m[2])
    \/ \E p \in FileUniverse : DeleteFile(p)
    \/ CreateUser(U_b)
    \/ OnCreated
    \/ OnDeleted
    \/ OnModified
    \/ OnMoved

Spec == Init /\ [][Next]_vars


(***************************************************************************)
(* The NAVOCEANO intake: the watcher on a tree where the uploads arrive in *)
(* the unsorted intake directory navoceano/hurricanes-20230601T0000        *)
(***************************************************************************)

F_u_2_nc == <<"u", "_", "2", ".", "n", "c">>
F_uv_1_nc == <<"u", "v", "_", "1", ".", "n", "c">>
F_u1_nc == <<"u", "1", ".", "n", "c">>
F_u_3_txt == <<"u", "_", "3", ".", "t", "x", "t">>

\* Files NAVOCEANO uploads: two of callsign u, one of callsign uv, one whose
\* name has no underscore, one that is no netCDF file.
NavoFileUniverse ==
    {Under(<<NAVOCEANO, HURRICANES, f>>) :
        f \in {F_u_1Z_nc, F_u_2_nc, F_uv_1_nc, F_u1_nc, F_u_3_txt}}

\* The intake directory has the place of a deployment directory of user
\* navoceano: the repository the watcher starts on is empty, or has the
\* Deployment registered for it.
NavoInitialDeployments == {{}, {WebDeployment(1, NAVOCEANO, HURRICANES)}}

InitNavo ==
    /\ users = {UserDoc(U_a), UserDoc(NAVOCEANO)}
    /\ deployments \in NavoInitialDeployments
    /\ dirs = FixedDirs
    /\ files = [p \in NavoFileUniverse |-> None]
    /\ symlinks = {}
    /\ flags = {}
    /\ queue = <<>>
    /\ observer = "running"
    /\ last = NothingHandled
    /\ ensured = {}
    /\ created = {}
    /\ now = 0
    /\ archive = Idle
    /\ catalog = Idle
    /\ replicate = Idle

NextNavo ==
    \/ \E p \in NavoFileUniverse : WriteFile(p, C_empty)
    \/ \E p \in NavoFileUniverse : DeleteFile(p)
    \/ OnCreated
    \/ OnDeleted
    \/ OnModified

SpecNavo == InitNavo /\ [][NextNavo]_vars


(***************************************************************************)
(* Events from outside the watched tree: the watcher handed events whose   *)
(* paths do not lie under self.base, beside the uploads of user a          *)
(***************************************************************************)

\* Roots beside the watched one: /x has nothing in common with /d, the name
\* of /da begins with the characters of /d.
O_x == <<"/", "x">>
O_da == <<"/", "d", "a">>

OutsideDirs ==
    {O_x \o SEP \o U_a \o SEP \o N_g1 \o SEP \o N_sub,
     O_da \o SEP \o N_g1,
     O_da \o SEP \o N_g1 \o SEP \o N_sub}

OutsideFiles ==
    {O_x \o SEP \o U_a \o SEP \o N_g1 \o SEP \o F_x_nc,
     O_da \o SEP \o N_g1 \o SEP \o F_x_nc,
     O_da \o SEP \o N_g1 \o SEP \o WMOID_TXT}

OutsideEvents ==
    {DirCreatedEvent(p) : p \in OutsideDirs}
        \cup {DirDeletedEvent(p) : p \in OutsideDirs}
        \cup {FileCreatedEvent(p) : p \in OutsideFiles}
        \cup {FileModifiedEvent(p) : p \in OutsideFiles}
        \cup {FileMovedEvent(O_da \o SEP \o N_g1 \o SEP \o F_wmoid_tmp, p) : p \in OutsideFiles}

\* The observer is handed an event that no operation in the tree caused.
Deliver(event) ==
    /\ CanOperate
    /\ UNCHANGED <<dirs, files>>
    /\ Report(event)

NextOutside ==
    \/ \E e \in OutsideEvents : Deliver(e)
    \/ \E p \in {D_a_g1, D_a_g1_s} : Mkdir(p)
    \/ WriteFile(Under(<<U_a, N_g1, F_x_nc>>), C_empty)
    \/ OnCreated
    \/ OnDeleted
    \/ OnModified
    \/ OnMoved

SpecOutside == Init /\ [][NextOutside]_vars


(***************************************************************************)
(* The NAVOCEANO intake with names that have several underscores or        *)
(* several trailing Z, while the User navoceano is or is not registered    *)
(***************************************************************************)

F_unit42_nc ==
    <<"u", "n", "i", "t", "4", "2", "_", "2", "0", "2", "3", "0", "6", "1", "5", "T",
      "1", "2", "0", "0", "Z", ".", "n", "c">>
F_v_1_2_nc == <<"v", "_", "1", "_", "2", ".", "n", "c">>
F_w_3ZZ_nc == <<"w", "_", "3", "Z", "Z", ".", "n", "c">>
F_w_4_txt == <<"w", "_", "4", ".", "t", "x", "t">>
N_unit42 ==
    <<"u", "n", "i", "t", "4", "2", "-", "2", "0", "2", "3", "0", "6", "1", "5", "T",
      "1", "2", "0", "0">>
N_v_1_2 == <<"v", "-", "1", "_", "2">>
N_w_3Z == <<"w", "-", "3", "Z">>

NavoNameUniverse ==
    {Under(<<NAVOCEANO, HURRICANES, f>>) :
        f \in {F_unit42_nc, F_v_1_2_nc, F_w_3ZZ_nc, F_w_4_txt}}

\* The repository is empty, or user a has registered a deployment under the
\* name an upload of callsign w is going to get.
NavoNameInitialDeployments == {{}, {WebDeployment(1, U_a, N_w_3Z)}}

InitNavoNames ==
    /\ users = {UserDoc(U_a)}
    /\ deployments \in NavoNameInitialDeployments
    /\ dirs = FixedDirs
    /\ files = [p \in NavoNameUniverse |-> None]
    /\ symlinks = {}
    /\ flags = {}
    /\ queue = <<>>
    /\ observer = "running"
    /\ last = NothingHandled
    /\ ensured = {}
    /\ created = {}
    /\ now = 0
    /\ archive = Idle
    /\ catalog = Idle
    /\ replicate = Idle

NextNavoNames ==
    \/ \E p \in NavoNameUniverse : WriteFile(p, C_empty)
    \/ CreateUser(NAVOCEANO)
    \/ OnCreated
    \/ OnModified

SpecNavoNames == InitNavoNames /\ [][NextNavoNames]_vars


(***************************************************************************)
(* The watcher on the tree below one deployment directory: subdirectories, *)
(* dot-prefixed names and extra_atts.json                                  *)
(***************************************************************************)

N_dot_s == <<".", "s">>
D_a_g1_dot_s == Under(<<U_a, N_g1, N_dot_s>>)
F_a_g1_extra_atts == Under(<<U_a, N_g1, EXTRA_ATTS_JSON>>)
F_a_g1_x_nc == Under(<<U_a, N_g1, F_x_nc>>)
F_a_g1_dot_x_nc == Under(<<U_a, N_g1, F_dot_x_nc>>)
F_a_g1_s_x_nc == Under(<<U_a, N_g1, N_sub, F_x_nc>>)

TreeDirUniverse == {D_a_g1, D_a_g1_s, D_a_g1_dot_s}

TreeFileUniverse == {F_a_g1_extra_atts, F_a_g1_x_nc, F_a_g1_dot_x_nc, F_a_g1_s_x_nc}

\* A data file is hidden under a dot-prefixed name, or a hidden one is shown.
TreeMoveUniverse == {<<F_a_g1_x_nc, F_a_g1_dot_x_nc>>, <<F_a_g1_dot_x_nc, F_a_g1_x_nc>>}

InitTree ==
    /\ users = {UserDoc(U_a), UserDoc(NAVOCEANO)}
    /\ \E r \in InitialRepositories : deployments = r.deployments /\ dirs = r.dirs
    /\ files = [p \in TreeFileUniverse |-> None]
    /\ symlinks = {}
    /\ flags = {}
    /\ queue = <<>>
    /\ observer = "running"
    /\ last = NothingHandled
    /\ ensured = {}
    /\ created = {}
    /\ now = 0
    /\ archive = Idle
    /\ catalog = Idle
    /\ replicate = Idle

NextTree ==
    \/ \E p \in TreeDirUniverse : Mkdir(p)
    \/ \E p \in TreeDirUniverse : Rmdir(p)
    \/ \E p \in TreeFileUniverse : WriteFile(p, C_empty)
    \/ \E m \in TreeMoveUniverse : MoveFile(m[1], m[2])
    \/ \E p \in TreeFileUniverse : DeleteFile(p)
    \/ OnCreated
    \/ OnDeleted
    \/ OnModified
    \/ OnMoved

SpecTree == InitTree /\ [][NextTree]_vars


(***************************************************************************)
(* Recovery: a deployment directory is uploaded for a user who is not      *)
(* registered, and the operator registers the user once the event of the   *)
(* directory has been dropped                                              *)
(***************************************************************************)

F_b_g1_x_nc == Under(<<U_b, N_g1, F_x_nc>>)
F_b_g1_wmoid == Under(<<U_b, N_g1, WMOID_TXT>>)

RecoveryDirUniverse == {D_b_g1, D_b_g1_s}

RecoveryFileUniverse == {F_b_g1_x_nc, F_b_g1_wmoid}

InitRecovery ==
    /\ users = {UserDoc(U_a), UserDoc(NAVOCEANO)}
    /\ \E r \in InitialRepositories : deployments = r.deployments /\ dirs = r.dirs
    /\ files = [p \in RecoveryFileUniverse |-> None]
    /\ symlinks = {}
    /\ flags = {}
    /\ queue = <<>>
    /\ observer = "running"
    /\ last = NothingHandled
    /\ ensured = {}
    /\ created = {}
    /\ now = 0
    /\ archive = Idle
    /\ catalog = Idle
    /\ replicate = Idle

\* The operator registers user b after the watcher has handled the
\* directory-created event of b/g-1 without creating a Deployment.
RegisterMissingUser ==
    /\ D_b_g1 \in dirs
    /\ \A i \in 1..Len(queue) : queue[i] # DirCreatedEvent(D_b_g1)
    /\ \A d \in deployments : d.deployment_dir # path_join(U_b, N_g1)
    /\ CreateUser(U_b)

NextRecovery ==
    \/ \E p \in RecoveryDirUniverse : Mkdir(p)
    \/ \E p \in RecoveryFileUniverse : \E c \in ContentsFor(p) : WriteFile(p, c)
    \/ \E p \in RecoveryFileUniverse : DeleteFile(p)
    \/ RegisterMissingUser
    \/ OnCreated
    \/ OnModified

SpecRecovery == InitRecovery /\ [][NextRecovery]_vars


(***************************************************************************)
(* scripts/archive_datasets.py : rename_archive_filename                   *)
(***************************************************************************)

\* ".ncCF.nc3.nc", the extension of an aggregated dataset file
NCCF_NC3_NC == <<".", "n", "c", "C", "F", ".", "n", "c", "3", ".", "n", "c">>

UNDERSCORE_DELAYED == <<"_", "d", "e", "l", "a", "y", "e", "d">>

DigitSeq == <<"0", "1", "2", "3", "4", "5", "6", "7", "8", "9">>

\* [a-b] for digits a, b
DigitRange(a, b) == {DigitSeq[k + 1] : k \in a..b}

\* [0-9]
Digits == DigitRange(0, 9)

\* [A-Za-z]
Letters ==
    {"A", "B", "C", "D", "E", "F", "G", "H", "I", "J", "K", "L", "M", "N", "O", "P", "Q", "R", "S", "T", "U", "V", "W", "X", "Y", "Z",
     "a", "b", "c", "d", "e", "f", "g", "h", "i", "j", "k", "l", "m", "n", "o", "p", "q", "r", "s", "t", "u", "v", "w", "x", "y", "z"}

\* [A-Za-z0-9_-]
IdentifierChars == Letters \cup Digits \cup {"_", "-"}

\* s has the characters of t at position k
has_at(s, k, t) == k + Len(t) - 1 <= Len(s) /\ SubSeq(s, k, k + Len(t) - 1) = t

\* The two characters of s at i match one of the alternatives, each a pair
\* of character classes.
two_chars(s, i, alternatives) ==
    \E alt \in alternatives : s[i] \in alt[1] /\ s[i + 1] \in alt[2]

\* [0-9]{4}(?:1[0-2]|0[1-9])(?:3[01]|0[1-9]|[12][0-9])T(?:2[0-3]|[01][0-9])(?:[0-5][0-9])
\* matches s at position p
matches_minutes(s, p) ==
    /\ p + 12 <= Len(s)
    /\ \A k \in 0..3 : s[p + k] \in Digits
    /\ two_chars(s, p + 4, {<<{"1"}, DigitRange(0, 2)>>, <<{"0"}, DigitRange(1, 9)>>})
    /\ two_chars(s, p + 6, {<<{"3"}, DigitRange(0, 1)>>, <<{"0"}, DigitRange(1, 9)>>,
                            <<DigitRange(1, 2), Digits>>})
    /\ s[p + 8] = "T"
    /\ two_chars(s, p + 9, {<<{"2"}, DigitRange(0, 3)>>, <<DigitRange(0, 1), Digits>>})
    /\ two_chars(s, p + 11, {<<DigitRange(0, 5), Digits>>})

\* (?:[0-5][0-9])? takes two characters after the minutes
matches_seconds(s, p) ==
    p + 14 <= Len(s) /\ two_chars(s, p + 13, {<<DigitRange(0, 5), Digits>>})

\* `$` : the end of the string, or the place before a newline that ends it
at_end(s, k) == k = Len(s) + 1 \/ (k = Len(s) /\ s[k] = "\n")

\* .*?(-delayed)?\.ncCF\.nc3\.nc$ from position k : the ways it matches, as
\* <<j, delayed>> with j the place where .*? stops and delayed whether
\* group 3 took part
tail_matches(s, k) ==
    {m \in (k..(Len(s) + 1)) \X BOOLEAN :
        /\ \A i \in k..(m[1] - 1) : s[i] # "\n"
        /\ IF m[2]
           THEN /\ has_at(s, m[1], DELAYED)
                /\ has_at(s, m[1] + Len(DELAYED), NCCF_NC3_NC)
                /\ at_end(s, m[1] + Len(DELAYED) + Len(NCCF_NC3_NC))
           ELSE /\ has_at(s, m[1], NCCF_NC3_NC)
                /\ at_end(s, m[1] + Len(NCCF_NC3_NC))}

\* re.search found nothing.
NoMatch == [group1 |-> None, group2 |-> None, group3 |-> None]

\* The largest and the smallest member of a set of integers.
max(S) == CHOOSE m \in S : \A x \in S : x <= m
min(S) == CHOOSE m \in S : \A x \in S : m <= x

\* re.search(r"^([A-Za-z0-9_-]+)-(<datetime>).*?(-delayed)?\.ncCF\.nc3\.nc$", s)
\* with the choices of the backtracking matcher: group 1 as long as it can
\* be, the seconds taken when they can be, .*? as short as it can be, and
\* group 3 taking part when it can.
re_search(s) ==
    LET ends(g) ==
            {e \in {g + 15} \cup (IF matches_seconds(s, g + 2) THEN {g + 17} ELSE {}) :
                tail_matches(s, e) # {}}
        starts ==
            {g \in 1..Len(s) :
                /\ \A i \in 1..g : s[i] \in IdentifierChars
                /\ g + 1 <= Len(s)
                /\ s[g + 1] = "-"
                /\ matches_minutes(s, g + 2)
                /\ ends(g) # {}}
    IN  IF starts = {} THEN NoMatch
        ELSE
        LET g == max(starts)
            e == max(ends(g))
            j == min({m[1] : m \in tail_matches(s, e)})
        IN  [group1 |-> SubSeq(s, 1, g),
             group2 |-> SubSeq(s, g + 2, e - 1),
             group3 |-> IF <<j, TRUE>> \in tail_matches(s, e) THEN DELAYED ELSE None]

\* s.replace(a, b) for one-character a and b
str_replace(s, a, b) == [i \in 1..Len(s) |-> IF s[i] = a THEN b ELSE s[i]]

\* Faulty variant: the trailing -delayed is dropped instead of being moved
\* into the glider identifier.
rename_archive_filename_drop_delayed(filepath) ==
    LET matches == re_search(filepath)
    IN  IF matches = NoMatch THEN filepath
        ELSE str_replace(matches.group1, "-", "_") \o <<"-">> \o matches.group2
                 \o NCCF_NC3_NC

\* rename_archive_filename
rename_archive_filename(filepath) ==
    LET matches == re_search(filepath)
    IN  IF matches = NoMatch THEN filepath
        ELSE
        LET glider_identifier ==
                IF matches.group3 # None
                THEN matches.group1 \o UNDERSCORE_DELAYED
                ELSE matches.group1
        IN  str_replace(glider_identifier, "-", "_") \o <<"-">> \o matches.group2
                \o NCCF_NC3_NC

\* The variables of the watcher, which is not running while a script is
\* looked at on its own.
watcher_vars ==
    <<users, deployments, dirs, files, symlinks, flags, queue, observer, last,
      ensured, created, now>>

WatcherStopped ==
    /\ users = {}
    /\ deployments = {}
    /\ dirs = {}
    /\ files = <<>>
    /\ symlinks = {}
    /\ flags = {}
    /\ queue = <<>>
    /\ observer = "stopped"
    /\ last = NothingHandled
    /\ ensured = {}
    /\ created = {}
    /\ now = 0

\* File names the function is applied to, put together from a glider
\* identifier, a datetime, an optional Z, an optional -delayed and an
\* extension: the names of tests/test_scripts.py and their neighbours.
I_test_123 == <<"t", "e", "s", "t", "_", "1", "2", "3">>
I_test_hyphen_123 == <<"t", "e", "s", "t", "-", "1", "2", "3">>
I_test_hash == <<"t", "e", "s", "t", "-", "1", "2", "3", "#", "1">>
I_g == <<"g">>
T_seconds == <<"2", "0", "2", "1", "0", "9", "1", "3", "T", "0", "0", "0", "0", "3", "0">>
T_minutes == <<"2", "0", "2", "1", "0", "9", "1", "3", "T", "0", "0", "0", "0">>
T_month_13 == <<"2", "0", "2", "1", "1", "3", "1", "3", "T", "0", "0", "0", "0">>
T_hour_24 == <<"2", "0", "2", "1", "0", "9", "1", "3", "T", "2", "4", "0", "0">>

Identifiers == {I_test_123, I_test_hyphen_123, I_test_hash, I_g}

Datetimes == {T_seconds, T_minutes, T_month_13, T_hour_24}

NameParts ==
    [identifier : Identifiers, datetime : Datetimes, z : {<<>>, <<"Z">>},
     delayed : {<<>>, DELAYED}, extension : {NCCF_NC3_NC, NC}]

NameOf(parts) ==
    parts.identifier \o <<"-">> \o parts.datetime \o parts.z \o parts.delayed
        \o parts.extension

InitRename ==
    /\ WatcherStopped
    /\ catalog = Idle
    /\ replicate = Idle
    /\ \E parts \in NameParts :
           archive = [script |-> "rename_archive_filename", parts |-> parts,
                      filepath |-> NameOf(parts), renamed |-> None, again |-> None]

\* rename_archive_filename(filepath)
Rename ==
    /\ archive.renamed = None
    /\ archive' = [archive EXCEPT !.renamed = rename_archive_filename(archive.filepath)]
    /\ UNCHANGED <<watcher_vars, catalog, replicate>>

\* rename_archive_filename applied to its own result
RenameAgain ==
    /\ archive.renamed # None
    /\ archive.again = None
    /\ archive' = [archive EXCEPT !.again = rename_archive_filename(archive.renamed)]
    /\ UNCHANGED <<watcher_vars, catalog, replicate>>

NextRename == Rename \/ RenameAgain

SpecRename == InitRename /\ [][NextRename]_vars


(***************************************************************************)
(* scripts/archive_datasets.py : make_copy                                 *)
(*                                                                         *)
(* The script works on a record a: the directory entries of regular files  *)
(* (several entries of one inode are hard links), the directories, the     *)
(* contents and the user.md5sum attribute of each inode.                   *)
(***************************************************************************)

\* scripts/config.py : the archive directory and the public data directory
NCEI_DIR == <<"/", "n">>
path2pub == <<"/", "p">>

DNA_SUFFIX == <<".", "D", "O", "-", "N", "O", "T", "-", "A", "R", "C", "H", "I", "V", "E">>
MD5_SUFFIX == <<".", "m", "d", "5">>

\* deployment_dir of the deployments the API lists as completed and
\* archive_safe
A_g == <<"a", "/", "g", "-", "2", "0", "2", "1", "0", "9", "1", "3", "T", "0", "0", "0", "0">>
A_h_delayed == <<"a", "/", "h", "-", "2", "0", "2", "1", "0", "9", "1", "3", "T", "0", "0", "0", "0", "Z", "-", "d", "e", "l", "a", "y", "e", "d">>

ActiveDeploymentDirs == {A_g, A_h_delayed}

\* get_active_deployment_paths : the aggregated file of a deployment
filepath_of(deployment_dir) ==
    LET filedir == path_join(path2pub, deployment_dir)
        filename == basename(deployment_dir) \o NCCF_NC3_NC
    IN  path_join(filedir, filename)

\* os.path.exists(p)
path_exists(a, p) == p \in a.folders \/ \E e \in a.entries : e.path = p

\* The inode the entry p names.
inode_of(a, p) == (CHOOSE e \in a.entries : e.path = p).inode

\* hasher.hexdigest() of the contents of an inode
md5_of(a, inode) == <<"md5", a.data[inode][2]>>

\* The inode number a new file gets.
fresh_inode(a) == IF DOMAIN a.data = {} THEN 1 ELSE 1 + max(DOMAIN a.data)

\* open(p, 'w').write(text) : the file is made, or its text replaced
write_file(a, p, text) ==
    IF \E e \in a.entries : e.path = p
    THEN [a EXCEPT !.data = [@ EXCEPT ![inode_of(a, p)] = text]]
    ELSE [a EXCEPT !.entries = @ \cup {[path |-> p, inode |-> fresh_inode(a)]},
                   !.data = [i \in DOMAIN @ \cup {fresh_inode(a)} |->
                                IF i = fresh_inode(a) THEN text ELSE @[i]]]

\* generate_hash(filepath), filepath an existing file
generate_hash(a, filepath) ==
    LET hash_value == md5_of(a, inode_of(a, filepath))
        written == write_file(a, filepath \o MD5_SUFFIX, hash_value)
    IN  [written EXCEPT !.md5sum = [i \in DOMAIN @ \cup {inode_of(a, filepath)} |->
                                       IF i = inode_of(a, filepath) THEN hash_value ELSE @[i]]]

\* make_copy, lines 103-127 : the md5 sum and the DO-NOT-ARCHIVE marker,
\* after target was found or made
make_copy_hash(a, filepath, target) ==
    LET do_not_archive_filename == target \o DNA_SUFFIX
        hashed ==
            \* xattr.getxattr raises IOError: no such attribute, or no such file
            IF ~path_exists(a, filepath) \/ inode_of(a, filepath) \notin DOMAIN a.md5sum
            THEN generate_hash(a, target)
            ELSE IF ~path_exists(a, target \o MD5_SUFFIX)
            THEN [a EXCEPT !.raised = "FileNotFoundError"]
            ELSE IF a.data[inode_of(a, target \o MD5_SUFFIX)]
                        # a.md5sum[inode_of(a, filepath)]
            THEN generate_hash(a, target)
            ELSE a
    IN  IF hashed.raised = NoException /\ path_exists(hashed, do_not_archive_filename)
        THEN [hashed EXCEPT !.entries = {e \in @ : e.path # do_not_archive_filename}]
        ELSE hashed

\* make_copy(filepath).  rename_archive_filename is given filepath, the
\* whole path, not the base name computed on line 91.
make_copy(a, filepath) ==
    LET filename == basename(filepath)
        target_filename == rename_archive_filename(filepath)
        target == path_join(NCEI_DIR, target_filename)
        source == filepath
    IN  IF ~path_exists(a, target)
        THEN IF ~path_exists(a, source) \/ dirname(target) \notin a.folders
             \* os.link raises OSError: caught and logged, return
             THEN [a EXCEPT !.caught = Append(@, "OSError")]
             ELSE make_copy_hash(
                      [a EXCEPT !.entries = @ \cup {[path |-> target,
                                                     inode |-> inode_of(a, source)]}],
                      filepath, target)
        ELSE make_copy_hash(a, filepath, target)

\* Most operations of one run of the archive scenario.
MaxRuns == 4

\* The newest version of a dataset.
MaxVersion == 2

InitArchive ==
    /\ WatcherStopped
    /\ catalog = Idle
    /\ replicate = Idle
    /\ archive = [script |-> "archive_datasets",
                  entries |-> {},
                  folders |-> {NCEI_DIR} \cup {path_join(path2pub, d) : d \in ActiveDeploymentDirs},
                  data |-> <<>>,
                  md5sum |-> <<>>,
                  caught |-> <<>>,
                  raised |-> NoException,
                  last |-> None,
                  runs |-> 0]

\* The state an operation of the scenario starts from.
StartRun(op, filepath) ==
    [archive EXCEPT !.caught = <<>>, !.raised = NoException,
                    !.last = <<op, filepath>>, !.runs = @ + 1]

\* ERDDAP writes the aggregated file of a deployment, or writes it anew.
WriteDataset(deployment_dir) ==
    LET a == StartRun("write", filepath_of(deployment_dir))
        p == filepath_of(deployment_dir)
        version == IF path_exists(a, p) THEN a.data[inode_of(a, p)][2] + 1 ELSE 1
    IN  /\ archive.runs < MaxRuns
        /\ version <= MaxVersion
        /\ archive' = write_file(a, p, <<"data", version>>)
        /\ UNCHANGED <<watcher_vars, catalog, replicate>>

\* main, lines 224-229 : make_copy for the file of an active deployment
MakeCopy(deployment_dir) ==
    /\ archive.runs < MaxRuns
    /\ archive' = make_copy(StartRun("make_copy", filepath_of(deployment_dir)),
                            filepath_of(deployment_dir))
    /\ UNCHANGED <<watcher_vars, catalog, replicate>>

NextArchive ==
    \/ \E d \in ActiveDeploymentDirs : WriteDataset(d)
    \/ \E d \in ActiveDeploymentDirs : MakeCopy(d)

SpecArchive == InitArchive /\ [][NextArchive]_vars


(***************************************************************************)
(* scripts/build_erddap_catalog.py : build_datasets_xml                    *)
(*                                                                         *)
(* The builder works on a record c: the `updated` time of each Deployment, *)
(* the time of the last run redis holds for each, the deployments whose    *)
(* directory has a dataset.xml chunk, and the catalog datasets.xml.        *)
(***************************************************************************)

\* name of the Deployments in the repository
CatalogDeployments == {N_g1, N_hdelayed}

\* The latest time of the scenario.
MaxClock == 3

\* build_datasets_xml, lines 107-131 : whether the loop reaches
\* build_erddap_catalog_chunk for the Deployment, or skips it.  hget gives 0
\* for a Deployment with no recorded run.
chunk_is_due(c, force, deployment_name) ==
    IF ~(force /\ deployment_name \in c.chunks)
    THEN c.updated[deployment_name] >= c.last_run[deployment_name]
    ELSE TRUE

\* build_datasets_xml(data_root, catalog_root, force); fails are the
\* Deployments for which build_erddap_catalog_chunk raises
build_datasets_xml(c, force, fails) ==
    LET due == {n \in DOMAIN c.updated : chunk_is_due(c, force, n)}
        written == due \ fails
    IN  [c EXCEPT !.chunks = @ \cup written,
                  !.last_run = [n \in DOMAIN @ |-> IF n \in written THEN c.clock ELSE @[n]],
                  !.attempted = due,
                  !.force = force,
                  !.datasets_xml = c.chunks \cup written,
                  !.runs = @ + 1]

InitCatalog ==
    /\ WatcherStopped
    /\ archive = Idle
    /\ replicate = Idle
    /\ catalog = [script |-> "build_erddap_catalog",
                  updated |-> [n \in CatalogDeployments |-> 1],
                  last_run |-> [n \in CatalogDeployments |-> 0],
                  chunks |-> {},
                  datasets_xml |-> {},
                  clock |-> 1,
                  attempted |-> {},
                  force |-> FALSE,
                  runs |-> 0]

\* main : one run of the script, with or without -f
Build(force, fails) ==
    /\ catalog.runs < MaxRuns
    /\ catalog' = build_datasets_xml(catalog, force, fails)
    /\ UNCHANGED <<watcher_vars, archive, replicate>>

\* Time passes.
Tick ==
    /\ catalog.clock < MaxClock
    /\ catalog' = [catalog EXCEPT !.clock = @ + 1]
    /\ UNCHANGED <<watcher_vars, archive, replicate>>

\* The watcher or the web application saves a Deployment.
SaveDeployment(deployment_name) ==
    /\ catalog.updated[deployment_name] # catalog.clock
    /\ catalog' = [catalog EXCEPT !.updated[deployment_name] = catalog.clock]
    /\ UNCHANGED <<watcher_vars, archive, replicate>>

\* The chunk of a deployment is removed from its directory.
RemoveChunk(deployment_name) ==
    /\ deployment_name \in catalog.chunks
    /\ catalog' = [catalog EXCEPT !.chunks = @ \ {deployment_name}]
    /\ UNCHANGED <<watcher_vars, archive, replicate>>

NextCatalog ==
    \/ \E force \in BOOLEAN : \E fails \in SUBSET CatalogDeployments : Build(force, fails)
    \/ Tick
    \/ \E n \in CatalogDeployments : SaveDeployment(n)
    \/ \E n \in CatalogDeployments : RemoveChunk(n)

SpecCatalog == InitCatalog /\ [][NextCatalog]_vars


(***************************************************************************)
(* scripts/replicatePrivateErddapDeployments.py : poll_erddap              *)
(*                                                                         *)
(* The coroutine is a record p: the value of att_counter, the responses    *)
(* its requests got so far, the place it stands at and what it returned.   *)
(***************************************************************************)

\* The status poll_erddap waits for (line 42).
HTTP_OK == 200

\* The largest value of `attempts` poll_erddap is called with.
MaxAttempts == 3

Answered(status) == [kind |-> "status", status |-> status]

\* session.get raised: a refused connection, a timeout
RequestFailed == [kind |-> "exception", status |-> 0]

\* What a request can come back with.
Responses == {Answered(HTTP_OK), Answered(404), Answered(503), RequestFailed}

\* Faulty variant: any answer ends the polling, whatever its status.
poll_erddap_request_any_status(p, response) ==
    IF response.kind = "status"
    THEN [p EXCEPT !.requests = Append(@, response), !.at = "return", !.returned = "True"]
    ELSE [p EXCEPT !.requests = Append(@, response), !.at = "sleep"]

\* poll_erddap, lines 40-47 : one request inside the while loop
poll_erddap_request(p, response) ==
    IF response.kind = "status" /\ response.status = HTTP_OK
    \* break, then return True (line 53)
    THEN [p EXCEPT !.requests = Append(@, response), !.at = "return", !.returned = "True"]
    \* a warning or the exception is logged
    ELSE [p EXCEPT !.requests = Append(@, response), !.at = "sleep"]

\* poll_erddap, lines 48-50 : sleep 15 seconds and count the attempt
poll_erddap_sleep(p) == [p EXCEPT !.att_counter = @ - 1, !.at = "while"]

\* poll_erddap, lines 39 and 51-52 : the loop condition fails, the else
\* clause of the while returns False
poll_erddap_exhausted(p) == [p EXCEPT !.at = "return", !.returned = "False"]

\* poll_erddap, lines 54-56 : an exception outside the inner try (the
\* session cannot be opened) is logged and False returned
poll_erddap_session_error(p) ==
    [p EXCEPT !.at = "return", !.returned = "False", !.session_error = TRUE]

\* poll_erddap(deployment_name, host, attempts=attempts), lines 29-36
poll_erddap_called(attempts) ==
    [script |-> "poll_erddap", attempts |-> attempts, att_counter |-> attempts,
     requests |-> <<>>, at |-> "session", returned |-> "None", session_error |-> FALSE]

InitPoll ==
    /\ WatcherStopped
    /\ archive = Idle
    /\ catalog = Idle
    /\ \E attempts \in 0..MaxAttempts : replicate = poll_erddap_called(attempts)

OpenSession ==
    /\ replicate.at = "session"
    /\ replicate' = [replicate EXCEPT !.at = "while"]
    /\ UNCHANGED <<watcher_vars, archive, catalog>>

SessionError ==
    /\ replicate.at = "session"
    /\ replicate' = poll_erddap_session_error(replicate)
    /\ UNCHANGED <<watcher_vars, archive, catalog>>

PollRequest(response) ==
    /\ replicate.at = "while"
    /\ replicate.att_counter > 0
    /\ replicate' = poll_erddap_request(replicate, response)
    /\ UNCHANGED <<watcher_vars, archive, catalog>>

PollSleep ==
    /\ replicate.at = "sleep"
    /\ replicate' = poll_erddap_sleep(replicate)
    /\ UNCHANGED <<watcher_vars, archive, catalog>>

PollExhausted ==
    /\ replicate.at = "while"
    /\ replicate.att_counter <= 0
    /\ replicate' = poll_erddap_exhausted(replicate)
    /\ UNCHANGED <<watcher_vars, archive, catalog>>

NextPoll ==
    \/ OpenSession
    \/ SessionError
    \/ \E response \in Responses : PollRequest(response)
    \/ PollSleep
    \/ PollExhausted

SpecPoll == InitPoll /\ [][NextPoll]_vars

\* The event loop runs the coroutine on: every request is answered or
\* fails, and asyncio.sleep returns.
SpecPollFair == SpecPoll /\ WF_vars(NextPoll)


(***************************************************************************)
(* scripts/replicatePrivateErddapDeployments.py : acquire_lock,            *)
(* release_lock and main                                                   *)
(*                                                                         *)
(* Replicate processes are started with the same lock file.  The          *)
(* state is a record r: the lock file (whether it exists and the pid in    *)
(* it, NoPid while it is empty) and the place each process stands at.      *)
(***************************************************************************)

\* The number of replicate processes started.
MaxProcesses == 3

\* The replicate processes, by pid.
Processes == 1..MaxProcesses

\* The pid of a process that ended long ago without removing its lock file.
StalePid == MaxProcesses + 1

\* The contents of a lock file that was opened for writing and not yet
\* written to.
NoPid == 0

NoLockFile == [exists |-> FALSE, pid |-> NoPid]

LockFileOf(pid) == [exists |-> TRUE, pid |-> pid]

\* check_pid, lines 278-289 : os.kill(pid, 0) succeeds for a process that
\* has not ended
check_pid(r, pid) == pid \in Processes /\ r.at[pid] \notin {"ended", "failed"}

\* acquire_lock, line 263 : os.path.exists(path)
acquire_lock_exists(r, self) ==
    [r EXCEPT !.at[self] = IF r.lock.exists THEN "read" ELSE "open"]

\* acquire_lock, lines 264-268 : read the pid, raise when its process lives
acquire_lock_read(r, self) ==
    IF ~r.lock.exists
    \* the holder has released the lock since line 263
    THEN [r EXCEPT !.at[self] = "failed", !.raised[self] = "FileNotFoundError"]
    ELSE IF r.lock.pid = NoPid
    \* int('') : the file was opened by another process and is still empty
    THEN [r EXCEPT !.at[self] = "failed", !.raised[self] = "ValueError"]
    ELSE IF check_pid(r, r.lock.pid)
    THEN [r EXCEPT !.at[self] = "failed", !.raised[self] = "LockAcquireError"]
    ELSE [r EXCEPT !.at[self] = "open"]

\* acquire_lock, line 270 : open(path, 'w') creates or truncates the file
acquire_lock_open(r, self) ==
    [r EXCEPT !.at[self] = "write", !.lock = LockFileOf(NoPid)]

\* acquire_lock, line 271 : the pid is written as the file is closed
acquire_lock_write(r, self) ==
    IF r.lock.exists
    THEN [r EXCEPT !.at[self] = "sync", !.lock = LockFileOf(self)]
    \* the file was unlinked meanwhile: the pid goes to the unlinked file
    ELSE [r EXCEPT !.at[self] = "sync"]

\* main, lines 126-127 and release_lock : os.unlink(path) in the finally
release_lock(r, self) ==
    IF r.lock.exists
    THEN [r EXCEPT !.at[self] = "ended", !.lock = NoLockFile]
    ELSE [r EXCEPT !.at[self] = "failed", !.raised[self] = "FileNotFoundError"]

\* No lock file, or one left behind by a process that is gone.
InitLock ==
    /\ WatcherStopped
    /\ archive = Idle
    /\ catalog = Idle
    /\ \E lock \in {NoLockFile, LockFileOf(StalePid)} :
           replicate = [script |-> "replicate",
                        lock |-> lock,
                        at |-> [self \in Processes |-> "exists"],
                        raised |-> [self \in Processes |-> NoException]]

AcquireLockExists(self) ==
    /\ replicate.at[self] = "exists"
    /\ replicate' = acquire_lock_exists(replicate, self)
    /\ UNCHANGED <<watcher_vars, archive, catalog>>

AcquireLockRead(self) ==
    /\ replicate.at[self] = "read"
    /\ replicate' = acquire_lock_read(replicate, self)
    /\ UNCHANGED <<watcher_vars, archive, catalog>>

AcquireLockOpen(self) ==
    /\ replicate.at[self] = "open"
    /\ replicate' = acquire_lock_open(replicate, self)
    /\ UNCHANGED <<watcher_vars, archive, catalog>>

AcquireLockWrite(self) ==
    /\ replicate.at[self] = "write"
    /\ replicate' = acquire_lock_write(replicate, self)
    /\ UNCHANGED <<watcher_vars, archive, catalog>>

\* main, lines 104-127 : the synchronisation has run, the finally releases
ReleaseLock(self) ==
    /\ replicate.at[self] = "sync"
    /\ replicate' = release_lock(replicate, self)
    /\ UNCHANGED <<watcher_vars, archive, catalog>>

NextLock ==
    \/ \E self \in Processes : AcquireLockExists(self)
    \/ \E self \in Processes : AcquireLockRead(self)
    \/ \E self \in Processes : AcquireLockOpen(self)
    \/ \E self \in Processes : AcquireLockWrite(self)
    \/ \E self \in Processes : ReleaseLock(self)

SpecLock == InitLock /\ [][NextLock]_vars


(***************************************************************************)
(* scripts/replicatePrivateErddapDeployments.py : sync_deployment          *)
(*                                                                         *)
(* The coroutine is a record y: the clock and the modification time it was *)
(* started with, the place it stands at, the list `did` of what it has     *)
(* done to the flag directories and the servers, in order, and the         *)
(* directories whose published file it has replaced.  poll_erddap          *)
(* and retrieve_data, modelled step by step above and below, appear here   *)
(* by their outcomes.                                                      *)
(***************************************************************************)

\* sync_deployment, line 236 : reload what was updated in the last 24 hours
time_in_past == 3600 * 24

\* int(currentEpoch) and int(mTime) of a run, in seconds.
ClockValues == {time_in_past - 1, time_in_past, time_in_past + 1}

ModTimeValues == {0, 1}

\* What retrieve_data can end in: the published file replaced, the file
\* kept as it was, or an exception that leaves the coroutine.
RetrieveOutcomes == {"replaced", "kept", "raised"}

\* Faulty variant: the result of the poll is not looked at.
sync_deployment_poll_ignored(y, polled) ==
    [y EXCEPT !.did = Append(@, <<"poll_erddap", polled>>), !.at = "retrieve_pub"]

\* sync_deployment, lines 238-241 and 258-259 : force or deltaT < time_in_past
sync_deployment_decide(y) ==
    LET deltaT == y.currentEpoch - y.mTime
    IN  IF y.force \/ deltaT < time_in_past
        THEN [y EXCEPT !.at = "touch_private"]
        ELSE [y EXCEPT !.at = "return"]

\* sync_deployment, lines 244-246 : touch the private flag, sleep
sync_deployment_touch_private(y) ==
    [y EXCEPT !.did = Append(@, <<"touch_erddap", "flags_private">>), !.at = "poll"]

\* sync_deployment, lines 247-249 : poll the private ERDDAP
sync_deployment_poll(y, polled) ==
    IF polled = "False"
    THEN [y EXCEPT !.did = Append(@, <<"poll_erddap", polled>>), !.at = "return"]
    ELSE [y EXCEPT !.did = Append(@, <<"poll_erddap", polled>>), !.at = "retrieve_pub"]

\* sync_deployment, line 251 : retrieve_data(path2pub, ...)
sync_deployment_retrieve_pub(y, outcome) ==
    [y EXCEPT !.did = Append(@, <<"retrieve_data", "path2pub">>),
              !.replaced = IF outcome = "replaced" THEN @ \cup {"path2pub"} ELSE @,
              !.at = IF outcome = "raised" THEN "raised" ELSE "touch_public"]

\* sync_deployment, line 253 : touch the public flag
sync_deployment_touch_public(y) ==
    [y EXCEPT !.did = Append(@, <<"touch_erddap", "flags_public">>),
              !.at = "retrieve_thredds"]

\* sync_deployment, line 255 : retrieve_data(path2thredds, ...)
sync_deployment_retrieve_thredds(y, outcome) ==
    [y EXCEPT !.did = Append(@, <<"retrieve_data", "path2thredds">>),
              !.replaced = IF outcome = "replaced" THEN @ \cup {"path2thredds"} ELSE @,
              !.at = IF outcome = "raised" THEN "raised" ELSE "return"]

InitSync ==
    /\ WatcherStopped
    /\ archive = Idle
    /\ catalog = Idle
    /\ \E force \in BOOLEAN : \E currentEpoch \in ClockValues : \E mTime \in ModTimeValues :
           replicate = [script |-> "sync_deployment", force |-> force,
                        currentEpoch |-> currentEpoch, mTime |-> mTime,
                        at |-> "start", did |-> <<>>, replaced |-> {}]

SyncDecide ==
    /\ replicate.at = "start"
    /\ replicate' = sync_deployment_decide(replicate)
    /\ UNCHANGED <<watcher_vars, archive, catalog>>

SyncTouchPrivate ==
    /\ replicate.at = "touch_private"
    /\ replicate' = sync_deployment_touch_private(replicate)
    /\ UNCHANGED <<watcher_vars, archive, catalog>>

SyncPoll(polled) ==
    /\ replicate.at = "poll"
    /\ replicate' = sync_deployment_poll(replicate, polled)
    /\ UNCHANGED <<watcher_vars, archive, catalog>>

SyncRetrievePub(outcome) ==
    /\ replicate.at = "retrieve_pub"
    /\ replicate' = sync_deployment_retrieve_pub(replicate, outcome)
    /\ UNCHANGED <<watcher_vars, archive, catalog>>

SyncTouchPublic ==
    /\ replicate.at = "touch_public"
    /\ replicate' = sync_deployment_touch_public(replicate)
    /\ UNCHANGED <<watcher_vars, archive, catalog>>

SyncRetrieveThredds(outcome) ==
    /\ replicate.at = "retrieve_thredds"
    /\ replicate' = sync_deployment_retrieve_thredds(replicate, outcome)
    /\ UNCHANGED <<watcher_vars, archive, catalog>>

NextSync ==
    \/ SyncDecide
    \/ SyncTouchPrivate
    \/ \E polled \in {"True", "False"} : SyncPoll(polled)
    \/ \E outcome \in RetrieveOutcomes : SyncRetrievePub(outcome)
    \/ SyncTouchPublic
    \/ \E outcome \in RetrieveOutcomes : SyncRetrieveThredds(outcome)

SpecSync == InitSync /\ [][NextSync]_vars


(***************************************************************************)
(* scripts/replicatePrivateErddapDeployments.py : retrieve_data            *)
(*                                                                         *)
(* The coroutine is a record t: what is at path_arg (the published file)   *)
(* and at path_arg + '.tmp', the value of fail_counter, the place it       *)
(* stands at and the exception that left it.  A file is "absent", or it    *)
(* holds the "previous" download, a "valid" new one, a "corrupt" one that  *)
(* netCDF4 cannot open, or a "partial" one whose download broke off.       *)
(***************************************************************************)

\* retrieve_data, line 159 : fail_counter = 5
initial_fail_counter == 5

\* retrieve_data, lines 150-155 : the name of the published file
path_arg(where, deployment_name) ==
    IF where = "thredds"
    THEN deployment_name \o <<".", "n", "c", "3", ".", "n", "c">>
    ELSE deployment_name \o NCCF_NC3_NC

\* What one pass of the loop body (lines 165-189) can meet:
\*   "http_error"   session.get raises (raise_for_status, no connection)
\*   "payload_error" reading the body raises after the .tmp file was opened
\*   "corrupt"      the body is read to its end, Dataset() cannot open it
\*   "valid"        the body is read to its end and Dataset() opens it
\*   "rename_error" the same, and os.rename raises
\*   "interrupted"  an exception the inner handler does not catch (the task
\*                  is cancelled, the run is interrupted) before the .tmp
\*                  file is opened
\*   "interrupted_download" the same while the body is read
GetOutcomes ==
    {"http_error", "payload_error", "corrupt", "valid", "rename_error",
     "interrupted", "interrupted_download"}

\* retrieve_data, lines 190-195 : count the failure, give up at zero
retrieve_data_failed(t) ==
    [t EXCEPT !.fail_counter = @ - 1,
              !.failures = @ + 1,
              !.at = IF t.fail_counter - 1 <= 0 THEN "return" ELSE "get"]

\* retrieve_data, lines 197-199 : the outer handler unlinks the .tmp file
retrieve_data_http_issue(t) ==
    IF t.tmp = "absent"
    THEN [t EXCEPT !.at = "raised", !.raised = "FileNotFoundError"]
    ELSE [t EXCEPT !.tmp = "absent", !.at = "return"]

\* retrieve_data, lines 165-195 : one pass of the while loop
retrieve_data_get(t, outcome) ==
    IF outcome = "http_error" THEN retrieve_data_failed(t)
    ELSE IF outcome = "payload_error"
    \* open(path_arg + '.tmp', 'wb') has created or truncated the file
    THEN retrieve_data_failed([t EXCEPT !.tmp = "partial"])
    ELSE IF outcome = "corrupt"
    \* lines 180-183 and 189 : unlink the .tmp file and return
    THEN [t EXCEPT !.tmp = "absent", !.at = "return"]
    ELSE IF outcome = "valid"
    \* lines 184-189 : os.rename(path_arg + '.tmp', path_arg) and return
    THEN [t EXCEPT !.tmp = "absent", !.published = "valid", !.renamed = "valid",
                   !.at = "return"]
    ELSE IF outcome = "rename_error"
    \* line 185 raises into the handler of line 190, the .tmp file stays
    THEN retrieve_data_failed([t EXCEPT !.tmp = "valid"])
    ELSE IF outcome = "interrupted" THEN retrieve_data_http_issue(t)
    ELSE retrieve_data_http_issue([t EXCEPT !.tmp = "partial"])

\* The published file of an earlier run is there or not, and so is a .tmp
\* file an earlier run gave up on.
InitRetrieve ==
    /\ WatcherStopped
    /\ archive = Idle
    /\ catalog = Idle
    /\ \E published \in {"absent", "previous"} :
       \E tmp \in {"absent", "partial", "valid"} :
       \E where \in {"thredds", "public"} :
           replicate = [script |-> "retrieve_data",
                        path_arg |-> path_arg(where, N_g1),
                        published |-> published, before |-> published, tmp |-> tmp,
                        fail_counter |-> initial_fail_counter, failures |-> 0,
                        renamed |-> "absent", at |-> "session", raised |-> NoException]

\* retrieve_data, lines 161-164 : the semaphore is taken, the session opened
RetrieveOpenSession ==
    /\ replicate.at = "session"
    /\ replicate' = [replicate EXCEPT !.at = "get"]
    /\ UNCHANGED <<watcher_vars, archive, catalog>>

\* retrieve_data, lines 163 and 197-199 : opening the session raises
RetrieveSessionError ==
    /\ replicate.at = "session"
    /\ replicate' = retrieve_data_http_issue(replicate)
    /\ UNCHANGED <<watcher_vars, archive, catalog>>

RetrieveGet(outcome) ==
    /\ replicate.at = "get"
    /\ replicate' = retrieve_data_get(replicate, outcome)
    /\ UNCHANGED <<watcher_vars, archive, catalog>>

NextRetrieve ==
    \/ RetrieveOpenSession
    \/ RetrieveSessionError
    \/ \E outcome \in GetOutcomes : RetrieveGet(outcome)

SpecRetrieve == InitRetrieve /\ [][NextRetrieve]_vars


(***************************************************************************)
(* scripts/archive_datasets.py : main                                      *)
(*                                                                         *)
(* The record a of make_copy, and in its field results what the API lists  *)
(* for each deployment: name, deployment_dir, completed, archive_safe.     *)
(***************************************************************************)

\* The order in which the API lists the deployments.
ApiOrder == <<A_g, A_h_delayed>>

\* get_active_deployments : the deployments that are completed and
\* archive_safe
get_active_deployments(a) == {d \in a.results : d.completed /\ d.archive_safe}

\* touch_file(filepath) : an empty file, unless there is one
touch_file(a, filepath) ==
    IF path_exists(a, filepath) THEN a ELSE write_file(a, filepath, <<"data", 0>>)

\* NCEI_DIR/<deployment>.ncCF.nc3.nc, the path remove_archive and
\* mark_do_not_archive build
archive_path_of(deployment) == path_join(NCEI_DIR, deployment \o NCCF_NC3_NC)

\* remove_archive(deployment)
remove_archive(a, deployment) ==
    LET path == archive_path_of(deployment)
    IN  [a EXCEPT !.entries = {e \in @ : e.path \notin {path \o MD5_SUFFIX, path}}]

\* mark_do_not_archive(deployment)
mark_do_not_archive(a, deployment) ==
    LET path == archive_path_of(deployment)
        updated_filename == path \o DNA_SUFFIX
    IN  IF path_exists(a, path) THEN touch_file(a, updated_filename) ELSE a

\* main, lines 224-229 : make_copy inside try / bare except
main_make_copy(a, filepath) ==
    LET copied == make_copy(a, filepath)
    IN  IF copied.raised # NoException
        THEN [copied EXCEPT !.raised = NoException, !.caught = Append(@, copied.raised)]
        ELSE copied

\* main, lines 224-225 : the paths get_active_deployment_paths yields
main_paths(a) ==
    LET active == {d.deployment_dir : d \in get_active_deployments(a)}
        listed(d) == d \in active
    IN  [n \in 1..Len(SelectSeq(ApiOrder, listed)) |->
            filepath_of(SelectSeq(ApiOrder, listed)[n])]

\* main, lines 232-237 : an archive file of NCEI_DIR whose deployment is not
\* active is marked and removed
main_clean(a, filename) ==
    LET deployment == SubSeq(filename, 1, find(filename, ".") - 1)
    IN  IF endswith(filename, NCCF_NC3_NC) /\ deployment \notin a.active_deployments
        THEN remove_archive(mark_do_not_archive(a, deployment), deployment)
        ELSE a

\* os.listdir(NCEI_DIR)
listdir_NCEI_DIR(a) == {basename(e.path) : e \in {x \in a.entries : dirname(x.path) = NCEI_DIR}}

\* An archive file and the directory entries an earlier run left in NCEI_DIR
\* for some of the deployments; the flags the API reports for each.
InitArchiveMain ==
    /\ WatcherStopped
    /\ catalog = Idle
    /\ replicate = Idle
    /\ \E archived \in SUBSET ActiveDeploymentDirs :
       \E flagged \in [ActiveDeploymentDirs -> [completed : BOOLEAN, archive_safe : BOOLEAN]] :
           archive = [script |-> "main",
                      results |-> {[name |-> basename(d), deployment_dir |-> d,
                                    completed |-> flagged[d].completed,
                                    archive_safe |-> flagged[d].archive_safe] :
                                        d \in ActiveDeploymentDirs},
                      entries |-> {[path |-> archive_path_of(basename(d)),
                                    inode |-> IF d = A_g THEN 1 ELSE 2] : d \in archived},
                      folders |-> {NCEI_DIR} \cup {path_join(path2pub, d) : d \in ActiveDeploymentDirs},
                      data |-> [i \in {IF d = A_g THEN 1 ELSE 2 : d \in archived} |-> <<"data", 1>>],
                      md5sum |-> <<>>,
                      caught |-> <<>>,
                      raised |-> NoException,
                      last |-> None,
                      runs |-> 0,
                      at |-> "idle",
                      paths |-> <<>>,
                      active_deployments |-> {},
                      listing |-> {}]

\* ERDDAP writes the aggregated file of a deployment.
WritePublished(deployment_dir) ==
    /\ archive.at = "idle"
    /\ archive.runs < MaxRuns
    /\ ~path_exists(archive, filepath_of(deployment_dir))
    /\ archive' = write_file(StartRun("write", filepath_of(deployment_dir)),
                             filepath_of(deployment_dir), <<"data", 1>>)
    /\ UNCHANGED <<watcher_vars, catalog, replicate>>

\* An operator marks a deployment for the archive, or takes the mark back.
SetArchiveSafe(deployment_dir) ==
    /\ archive.at = "idle"
    /\ archive.runs < MaxRuns
    /\ LET a == StartRun("archive_safe", deployment_dir)
       IN  archive' = [a EXCEPT !.results =
                          {IF d.deployment_dir = deployment_dir
                           THEN [d EXCEPT !.archive_safe = ~@] ELSE d : d \in @}]
    /\ UNCHANGED <<watcher_vars, catalog, replicate>>

\* main, lines 222-224 : the script is started, the API is asked once
MainStart ==
    /\ archive.at = "idle"
    /\ archive.runs < MaxRuns
    /\ archive' = [StartRun("main", NCEI_DIR) EXCEPT !.at = "make_copy",
                                                     !.paths = main_paths(archive)]
    /\ UNCHANGED <<watcher_vars, catalog, replicate>>

\* main, lines 224-229 : one pass of the first loop
MainMakeCopy ==
    /\ archive.at = "make_copy"
    /\ archive.paths # <<>>
    /\ archive' = main_make_copy([archive EXCEPT !.paths = Tail(@)], Head(archive.paths))
    /\ UNCHANGED <<watcher_vars, catalog, replicate>>

\* main, lines 231-232 : the names of the active deployments, os.listdir
MainListdir ==
    /\ archive.at = "make_copy"
    /\ archive.paths = <<>>
    /\ archive' = [archive EXCEPT !.at = "clean",
                                  !.active_deployments =
                                      {d.name : d \in get_active_deployments(archive)},
                                  !.listing = listdir_NCEI_DIR(archive)]
    /\ UNCHANGED <<watcher_vars, catalog, replicate>>

\* main, lines 232-237 : one pass of the second loop, in the order of listdir
MainClean ==
    /\ archive.at = "clean"
    /\ \E filename \in archive.listing :
           archive' = main_clean([archive EXCEPT !.listing = @ \ {filename}], filename)
    /\ UNCHANGED <<watcher_vars, catalog, replicate>>

\* main returns
MainReturn ==
    /\ archive.at = "clean"
    /\ archive.listing = {}
    /\ archive' = [archive EXCEPT !.at = "idle", !.last = <<"main returned", NCEI_DIR>>]
    /\ UNCHANGED <<watcher_vars, catalog, replicate>>

NextArchiveMain ==
    \/ \E d \in ActiveDeploymentDirs : WritePublished(d)
    \/ \E d \in ActiveDeploymentDirs : SetArchiveSafe(d)
    \/ MainStart
    \/ MainMakeCopy
    \/ MainListdir
    \/ MainClean
    \/ MainReturn

SpecArchiveMain == InitArchiveMain /\ [][NextArchiveMain]_vars


(***************************************************************************)
(* scripts/build_erddap_catalog.py : build_datasets_xml, lines 151-186     *)
(*                                                                         *)
(* The second half of the function, statement by statement.  A catalog     *)
(* file is a record of what was written to it: the head, the chunks of     *)
(* deployments, the entries of inactive datasets, the tail.                *)
(***************************************************************************)

\* A dataset ERDDAP still serves and no Deployment has.
N_retired == <<"r", "-", "1">>

NoCatalogFile ==
    [exists |-> FALSE, head |-> FALSE, chunks |-> {}, inactive |-> {}, tail |-> FALSE]

\* open(ds_tmp_path, 'w')
EmptyCatalogFile == [NoCatalogFile EXCEPT !.exists = TRUE]

\* A catalog written from its head to its tail.
CompleteCatalog(chunks, inactive) ==
    [exists |-> TRUE, head |-> TRUE, chunks |-> chunks, inactive |-> inactive, tail |-> TRUE]

\* inactive_datasets(deployments_set), lines 82-93 : an empty set when the
\* request to ERDDAP fails
inactive_datasets(c, deployments_set, answered) ==
    LET erddap_contents_set == IF answered THEN c.erddap ELSE {}
    IN  erddap_contents_set \ deployments_set

\* build_datasets_xml, lines 180-181 : an OSError inside the try is logged
datasets_xml_OSError(c) == [c EXCEPT !.caught = Append(@, "OSError"), !.at = "log"]

\* build_datasets_xml, line 158 : the temporary file is created or truncated
datasets_xml_open(c) == [c EXCEPT !.tmp = EmptyCatalogFile, !.at = "head"]

\* lines 159-160
datasets_xml_head(c) == [c EXCEPT !.tmp.head = TRUE, !.at = "deployments"]

\* lines 162-168 : every Deployment is named, the chunks that exist are copied
datasets_xml_deployments(c) ==
    [c EXCEPT !.deployments_name_set = c.deployments,
              !.tmp.chunks = c.deployments \cap c.chunks,
              !.at = "inactive"]

\* line 170
datasets_xml_inactive(c, answered) ==
    [c EXCEPT !.inactive_deployment_names =
                  [bound |-> TRUE,
                   names |-> inactive_datasets(c, c.deployments_name_set, answered)],
              !.at = "write inactive"]

\* lines 172-174
datasets_xml_write_inactive(c) ==
    [c EXCEPT !.tmp.inactive = c.inactive_deployment_names.names, !.at = "tail"]

\* lines 176-177
datasets_xml_tail(c) == [c EXCEPT !.tmp.tail = TRUE, !.at = "rename"]

\* line 179 : os.rename(ds_tmp_path, ds_path)
datasets_xml_rename(c) ==
    [c EXCEPT !.datasets_xml = c.tmp, !.tmp = NoCatalogFile, !.at = "log"]

\* lines 183-186 : the flags of the inactive datasets; the name
\* inactive_deployment_names is read
datasets_xml_flags(c) ==
    IF c.inactive_deployment_names.bound
    THEN [c EXCEPT !.synced = c.inactive_deployment_names.names, !.at = "return"]
    ELSE [c EXCEPT !.raised = "UnboundLocalError", !.at = "raised"]

\* The statement of the try block the function stands at.
datasets_xml_step(c, answered) ==
    IF c.at = "open" THEN datasets_xml_open(c)
    ELSE IF c.at = "head" THEN datasets_xml_head(c)
    ELSE IF c.at = "deployments" THEN datasets_xml_deployments(c)
    ELSE IF c.at = "inactive" THEN datasets_xml_inactive(c, answered)
    ELSE IF c.at = "write inactive" THEN datasets_xml_write_inactive(c)
    ELSE IF c.at = "tail" THEN datasets_xml_tail(c)
    ELSE datasets_xml_rename(c)

InTry == {"open", "head", "deployments", "inactive", "write inactive", "tail", "rename"}

\* A catalog of an earlier run may be there, some Deployments have a chunk,
\* ERDDAP serves some datasets.
InitDatasetsXml ==
    /\ WatcherStopped
    /\ archive = Idle
    /\ replicate = Idle
    /\ \E chunks \in SUBSET CatalogDeployments :
       \E erddap \in SUBSET {N_g1, N_retired} :
       \E previous \in {NoCatalogFile, CompleteCatalog({N_g1}, {})} :
       \E stale \in {NoCatalogFile, EmptyCatalogFile} :
           catalog = [script |-> "datasets.xml",
                      deployments |-> CatalogDeployments,
                      chunks |-> chunks,
                      erddap |-> erddap,
                      datasets_xml |-> previous,
                      before |-> previous,
                      tmp |-> stale,
                      deployments_name_set |-> {},
                      inactive_deployment_names |-> [bound |-> FALSE, names |-> {}],
                      synced |-> {},
                      caught |-> <<>>,
                      raised |-> NoException,
                      at |-> "open"]

\* One statement of lines 157-179 is carried out.
DatasetsXmlStep(answered) ==
    /\ catalog.at \in InTry
    /\ catalog.at # "inactive" => answered
    /\ catalog' = datasets_xml_step(catalog, answered)
    /\ UNCHANGED <<watcher_vars, archive, replicate>>

\* The statement raises OSError: the file cannot be opened, the disk is
\* full, a template or a chunk cannot be read, the rename is refused.
DatasetsXmlOSError ==
    /\ catalog.at \in InTry \ {"inactive"}
    /\ catalog' = datasets_xml_OSError(catalog)
    /\ UNCHANGED <<watcher_vars, archive, replicate>>

\* lines 183-186
DatasetsXmlFlags ==
    /\ catalog.at = "log"
    /\ catalog' = datasets_xml_flags(catalog)
    /\ UNCHANGED <<watcher_vars, archive, replicate>>

NextDatasetsXml ==
    \/ \E answered \in BOOLEAN : DatasetsXmlStep(answered)
    \/ DatasetsXmlOSError
    \/ DatasetsXmlFlags

SpecDatasetsXml == InitDatasetsXml /\ [][NextDatasetsXml]_vars


(***************************************************************************)
(* Properties                                                              *)
(***************************************************************************)

\* The step is the handling of the event at the head of the queue.
Dispatched == observer = "running" /\ queue # <<>> /\ queue' # queue /\ now' = now

\* The components of p relative to the watched root.
RelParts(p) == str_split(relpath(p, base), "/")

\* A file event the handler is given: created, modified or moved.
IsFileEvent(e) == ~e.is_directory /\ e.event_type \in {"created", "modified", "moved"}

IsDirEvent(e, event_type) == e.is_directory /\ e.event_type = event_type

\* The file a file event is about: the destination of a move.
EventFile(e) == IF e.event_type = "moved" THEN e.dest_path ELSE e.src_path

\* The directory of that file, relative to the watched root.
EventDir(e) == relpath(dirname(EventFile(e)), base)

HasUser(username) == find_one(users, "username", username) # NoDocument

Known(deployment_dir) == \E d \in deployments : d.deployment_dir = deployment_dir

\* The <user>/<deployment> directories made since the watcher started whose
\* user is registered.
DeploymentDirsOnDisk ==
    {relpath(p, base) : p \in {d \in dirs \ FixedDirs :
                                  Len(RelParts(d)) = 2 /\ HasUser(RelParts(d)[1])}}

\* C1: once the watcher has handled every reported event, the deployment_dir
\* values of the Deployment records are exactly the <user>/<deployment>
\* directories on disk.
C1_DeploymentsMatchDisk ==
    (queue = <<>> /\ observer = "running")
        => {d.deployment_dir : d \in deployments} = DeploymentDirsOnDisk

\* C2: no two Deployment records share a deployment_dir, and no two share a
\* name.
C2_UniqueDirAndName ==
    \A d1, d2 \in deployments :
        (d1.deployment_dir = d2.deployment_dir \/ d1.name = d2.name) => d1 = d2

\* Deployment g-1 of user a exists next to another one, and the watcher was
\* asked to ensure a deployment of the same name for the registered user b.
C2_Witness ==
    /\ <<U_b, N_g1>> \in ensured
    /\ \E d \in deployments : d.name = N_g1 /\ d.deployment_dir = path_join(U_a, N_g1)
    /\ Cardinality(deployments) >= 2

\* C3: a call of create_deployment_if_nonexistent for an existing User leaves
\* exactly one Deployment of that name; a call repeating an earlier one
\* changes no Deployment and raises nothing.
C3_EnsureIsIdempotent ==
    [][Dispatched =>
        \A i \in 1..Len(last'.calls) :
            LET c == last'.calls[i]
            IN  /\ c \in ensured' => Cardinality({d \in deployments' : d.name = c[2]}) = 1
                /\ c \in ensured => /\ deployments' = deployments
                                    /\ last'.raised = NoException]_vars

\* The last event handled repeated an earlier call, and one Deployment of
\* that name is there.
C3_Witness ==
    /\ last.repeated # {}
    /\ last.raised = NoException
    /\ \A c \in last.repeated : Cardinality({d \in deployments : d.name = c[2]}) = 1

\* C4: a directory-created event for <root>/<user>/<deployment>, the User
\* existing and no Deployment of that name existing, persists the Deployment
\* with its name, deployment_dir, user_id and glider_name.
C4_DirCreatedMakesDeployment ==
    [][(/\ Dispatched
        /\ IsDirEvent(Head(queue), "created")
        /\ Len(RelParts(Head(queue).src_path)) = 2
        /\ HasUser(RelParts(Head(queue).src_path)[1])
        /\ \A d \in deployments : d.name # RelParts(Head(queue).src_path)[2])
       => LET parts == RelParts(Head(queue).src_path)
          IN  \E d \in deployments' :
                /\ d.name = parts[2]
                /\ d.deployment_dir = parts[1] \o SEP \o parts[2]
                /\ d.user_id = find_one(users, "username", parts[1]).id
                /\ d.glider_name = str_split1(parts[2], "-")[1]]_vars

\* C5: a directory-deleted event for the directory of an existing Deployment
\* removes that Deployment.
C5_DirDeletedRemovesDeployment ==
    [][(/\ Dispatched
        /\ IsDirEvent(Head(queue), "deleted")
        /\ Len(RelParts(Head(queue).src_path)) = 2
        /\ Known(relpath(Head(queue).src_path, base)))
       => \A d \in deployments' :
            d.deployment_dir # relpath(Head(queue).src_path, base)]_vars

\* C6: a Deployment newly persisted by the watcher has delayed_mode true
\* exactly when its name ends with -delayed.
C6_DelayedModePersisted ==
    [][Dispatched =>
        \A d \in deployments' :
            (\A x \in deployments : x.id # d.id)
                => (d.delayed_mode <=> endswith(d.name, DELAYED))]_vars

\* A file event for a .nc file in the directory of a known Deployment.
NcEventOfKnownDeployment(e) ==
    /\ IsFileEvent(e)
    /\ splitext(basename(EventFile(e)))[2] = NC
    /\ Known(EventDir(e))

\* The Deployment of the event's directory is saved once and, unless it is
\* in delayed mode, exactly the flag named after the last segment of its
\* directory is touched.
SavedAndFlagged(e) ==
    LET d == find_one(deployments, "deployment_dir", EventDir(e))
        segment == RelParts(dirname(EventFile(e)))[Len(RelParts(dirname(EventFile(e))))]
    IN  /\ last'.saves = <<EventDir(e)>>
        /\ [d EXCEPT !.updated = now] \in deployments'
        /\ last'.raised = NoException
        /\ IF d.delayed_mode
           THEN last'.touched = <<>> /\ flags' = flags
           ELSE last'.touched = <<segment>> /\ flags' = flags \cup {segment}

C8_DelayedNeverFlags ==
    [][(/\ Dispatched
        /\ NcEventOfKnownDeployment(Head(queue))
        /\ EventDir(Head(queue)) \in created
        /\ endswith(find_one(deployments, "deployment_dir", EventDir(Head(queue))).name,
                    DELAYED))
       => last'.touched = <<>> /\ flags' = flags]_vars

\* C9: a wmoid.txt event for a known Deployment leaves wmo_id equal to the
\* stripped first line of the file.
C9_WmoIdIsFirstLine ==
    [][(/\ Dispatched
        /\ IsFileEvent(Head(queue))
        /\ basename(EventFile(Head(queue))) = WMOID_TXT
        /\ Known(EventDir(Head(queue)))
        /\ EventFile(Head(queue)) \in DOMAIN files
        /\ files[EventFile(Head(queue))] # None)
       => \E d \in deployments' :
            /\ d.deployment_dir = EventDir(Head(queue))
            /\ d.wmo_id = strip(readline(files[EventFile(Head(queue))]))]_vars

\* C10: a directory-created event under a user directory with no User of
\* that name changes neither collection, and the handler returns normally.
C10_NoUserNoDeployment ==
    [][(/\ Dispatched
        /\ IsDirEvent(Head(queue), "created")
        /\ ~HasUser(RelParts(Head(queue).src_path)[1]))
       => /\ deployments' = deployments
          /\ users' = users
          /\ last'.raised = NoException
          /\ observer' = "running"]_vars

\* The directory b/g-1/s was reported while no User b existed: the handler
\* asked for Deployment g-1 of b, and none was made.
C10_Witness ==
    /\ last.event = DirCreatedEvent(D_b_g1_s)
    /\ last.calls = <<<<U_b, N_g1>>>>
    /\ UserDoc(U_b) \notin users
    /\ deployments = {}
    /\ last.raised = NoException

\* Whether p lies in the watched tree.
InsideRoot(p) == startswith(p, base \o SEP)

\* A file event for a file located in the NAVOCEANO intake directory.
IsIntakeEvent(e) == IsFileEvent(e) /\ dirname(EventFile(e)) = D_intake

\* The base name of the event's file without its extension.
RawName(e) == splitext(basename(EventFile(e)))[1]

\* A .nc intake file, no dotfile, whose name has a callsign and a timestamp.
IsNavoUpload(e) ==
    /\ IsIntakeEvent(e)
    /\ ~startswith(basename(EventFile(e)), DOT)
    /\ endswith(basename(EventFile(e)), NC)

Callsign(e) == str_split1(RawName(e), "_")[1]

\* The name the upload is linked under: <callsign>_<timestamp without Z>.nc
LinkName(e) ==
    LET date_str_tz == str_split1(RawName(e), "_")[2]
    IN  Callsign(e) \o <<"_">>
            \o (IF endswith(date_str_tz, <<"Z">>)
                THEN SubSeq(date_str_tz, 1, Len(date_str_tz) - 1) ELSE date_str_tz)
            \o NC

\* The directories <root>/navoceano/<callsign>-<timestamp> among ds.
CallsignDirs(ds, callsign) ==
    {d \in ds : dirname(d) = D_navoceano /\ startswith(basename(d), callsign \o <<"-">>)}

\* The Deployments of navoceano/<callsign>-<timestamp> among coll.
CallsignDeployments(coll, callsign) ==
    {x \in coll : startswith(x.deployment_dir, NAVOCEANO \o SEP \o callsign \o <<"-">>)}

\* C11: handling a .nc intake file event whose base name has no underscore
\* raises nothing and creates no Deployment, directory or symlink.
C11_NoUnderscoreIsDropped ==
    [][Dispatched /\ IsNavoUpload(Head(queue)) /\ find(RawName(Head(queue)), "_") = 0
        => /\ last'.raised = NoException
           /\ observer' = "running"
           /\ deployments' = deployments
           /\ dirs' = dirs
           /\ symlinks' = symlinks]_vars

\* C12: after an intake file event of a callsign is handled there is exactly
\* one directory navoceano/<callsign>-<timestamp>, exactly one Deployment of
\* such a directory, and the file is linked inside that directory.
C12_OneDirectoryPerCallsign ==
    [][Dispatched /\ IsNavoUpload(Head(queue)) /\ find(RawName(Head(queue)), "_") # 0
        => LET e == Head(queue)
           IN  /\ Cardinality(CallsignDirs(dirs', Callsign(e))) = 1
               /\ Cardinality(CallsignDeployments(deployments', Callsign(e))) = 1
               /\ \E d \in CallsignDirs(dirs', Callsign(e)) :
                      [link |-> path_join(d, LinkName(e)), target |-> EventFile(e)]
                          \in symlinks']_vars

\* The directories the handler can choose for the upload of event e.
NavoCandidates(e) ==
    LET existing == possible_existing_dirs(StartWorld, D_navoceano, Callsign(e))
    IN  IF existing # {} THEN existing
        ELSE {path_join(D_navoceano, Callsign(e) \o <<"-">>
                  \o SubSeq(LinkName(e), Len(Callsign(e)) + 2, Len(LinkName(e)) - Len(NC)))}

\* Whichever directory the handler chooses, the link path is taken there.
LinkTaken(e) ==
    \A d \in NavoCandidates(e) : lexists(StartWorld, path_join(d, LinkName(e)))

\* C13: when the symlink of an intake upload cannot be made because its path
\* exists already, the OSError is caught: nothing leaves the handler, no
\* link is made and the watcher stays running for the next event.
C13_OSErrorIsCaught ==
    [][Dispatched /\ IsNavoUpload(Head(queue)) /\ find(RawName(Head(queue)), "_") # 0
            /\ LinkTaken(Head(queue))
        => /\ last'.raised = NoException
           /\ last'.caught = <<"FileExistsError">>
           /\ observer' = "running"
           /\ symlinks' = symlinks]_vars

\* An upload was handled a second time, the link made the first time in the
\* way, and a later event was then handled.
C13_Witness ==
    /\ \E p \in DOMAIN files : last.event = FileModifiedEvent(p) /\ dirname(p) = D_intake
    /\ last.caught = <<"FileExistsError">>
    /\ last.raised = NoException
    /\ observer = "running"
    /\ symlinks # {}

\* C14: an event for a file in the intake directory touches no flag file and
\* leaves every existing Deployment as it is; a Deployment it adds is the
\* one of a directory navoceano/<name>, never found by the file's own
\* directory being looked up as a deployment directory.
C14_IntakeFileIsNoDataFile ==
    [][Dispatched /\ IsIntakeEvent(Head(queue))
        => /\ flags' = flags
           /\ last'.touched = <<>>
           /\ deployments \subseteq deployments'
           /\ \A x \in deployments' \ deployments :
                  /\ Len(last'.calls) = 1
                  /\ x.deployment_dir = path_join(last'.calls[1][1], last'.calls[1][2])
                  /\ x.user_id = UserDoc(NAVOCEANO).id
           /\ Len(last'.saves) <= 1
           /\ \A i \in 1..Len(last'.saves) : ~Known(last'.saves[i])]_vars

\* An upload was handled while the intake directory itself had a Deployment:
\* the Deployment of the target directory was added and nothing else saved.
C14_Witness ==
    /\ \E p \in DOMAIN files : last.event = FileCreatedEvent(p) /\ dirname(p) = D_intake
    /\ Known(NAVO_UNSORTED)
    /\ Len(last.saves) = 1
    /\ last.saves[1] # NAVO_UNSORTED
    /\ last.touched = <<>>
    /\ flags = {}

\* No path of the event lies in the watched tree.
IsOutside(e) ==
    /\ ~InsideRoot(e.src_path)
    /\ e.dest_path # None => ~InsideRoot(e.dest_path)

\* C15: handling an event none of whose paths lies under the watched root
\* changes nothing: the Deployments, the directories, the symlinks and the
\* flag files stay as they are and nothing is saved or touched.
C15_OutsideEventChangesNothing ==
    [][Dispatched /\ IsOutside(Head(queue))
        => /\ deployments' = deployments
           /\ dirs' = dirs
           /\ symlinks' = symlinks
           /\ flags' = flags
           /\ last'.saves = <<>>
           /\ last'.touched = <<>>]_vars

\* A .nc file event under /da, a path that has the root path /d as a
\* substring, was handled while Deployment a/g-1 was known.
C15_Witness ==
    /\ last.event = FileCreatedEvent(O_da \o SEP \o N_g1 \o SEP \o F_x_nc)
    /\ str_in(base, last.event.src_path)
    /\ Known(path_join(U_a, N_g1))
    /\ last.saves = <<>>
    /\ last.raised = NoException

\* C16: no failure leaves the handler of an event: every dispatched event
\* ends without an exception and leaves the observer running.
C16_NoFailureLeavesHandler ==
    [][Dispatched => last'.raised = NoException /\ observer' = "running"]_vars

\* C20: a directory-created or directory-deleted event in the watched tree
\* whose relative path has not exactly two components creates and deletes
\* no Deployment.
C20_OnlyTwoComponentsCount ==
    [][Dispatched /\ Head(queue).is_directory
            /\ Head(queue).event_type \in {"created", "deleted"}
            /\ InsideRoot(Head(queue).src_path)
            /\ Len(RelParts(Head(queue).src_path)) # 2
        => deployments' = deployments]_vars

\* A name put together from parts matches the pattern.
IsArchiveName(parts) ==
    /\ \A i \in 1..Len(parts.identifier) : parts.identifier[i] \in IdentifierChars
    /\ parts.datetime \in {T_seconds, T_minutes}
    /\ parts.extension = NCCF_NC3_NC

\* The NCEI form of such a name: hyphens of the identifier made underscores,
\* _delayed at the end of the identifier, no Z after the datetime.
NceiName(parts) ==
    str_replace(parts.identifier, "-", "_")
        \o (IF parts.delayed # <<>> THEN UNDERSCORE_DELAYED ELSE <<>>)
        \o <<"-">> \o parts.datetime \o NCCF_NC3_NC

\* C17: rename_archive_filename gives a matching name its NCEI form, gives a
\* name that does not match back unchanged, and gives its own result back
\* unchanged.
C17_RenameNormalises ==
    /\ archive.renamed # None =>
           archive.renamed = (IF IsArchiveName(archive.parts)
                              THEN NceiName(archive.parts) ELSE archive.filepath)
    /\ archive.again # None => archive.again = archive.renamed

\* The name with hyphens, Z and -delayed was renamed, and renamed again.
C17_Witness ==
    /\ archive.parts = [identifier |-> I_test_hyphen_123, datetime |-> T_seconds,
                        z |-> <<"Z">>, delayed |-> DELAYED, extension |-> NCCF_NC3_NC]
    /\ archive.again # None
    /\ archive.renamed # archive.filepath

\* The archive name of a source file: rename_archive_filename of its base
\* name, in NCEI_DIR.
ArchivePath(filepath) == path_join(NCEI_DIR, rename_archive_filename(basename(filepath)))

\* C18: make_copy for an existing source file with no archive yet leaves a
\* hard link to the file at NCEI_DIR/rename_archive_filename(base name), a
\* path in NCEI_DIR other than the source path.
C18_MakeCopyLinksIntoArchive ==
    [][\A d \in ActiveDeploymentDirs :
          (/\ archive'.last = <<"make_copy", filepath_of(d)>>
           /\ archive'.runs = archive.runs + 1
           /\ path_exists(archive, filepath_of(d))
           /\ ~path_exists(archive, ArchivePath(filepath_of(d))))
          => /\ [path |-> ArchivePath(filepath_of(d)),
                 inode |-> inode_of(archive, filepath_of(d))] \in archive'.entries
             /\ dirname(ArchivePath(filepath_of(d))) = NCEI_DIR
             /\ ArchivePath(filepath_of(d)) # filepath_of(d)]_vars

\* C19: a run with the force flag attempts a chunk for every Deployment; a
\* run without it attempts a chunk exactly for the Deployments updated
\* since their last recorded run.
C19_ForceBuildsEveryChunk ==
    [][catalog'.runs = catalog.runs + 1
        => catalog'.attempted =
               (IF catalog'.force THEN CatalogDeployments
                ELSE {n \in CatalogDeployments :
                         catalog.updated[n] >= catalog.last_run[n]})]_vars

\* C21: a directory-deleted event deletes or changes no Deployment of another
\* directory, and for a directory without a Deployment it leaves the
\* repository as it was and raises nothing.
C21_DirDeletedTouchesNoOtherDeployment ==
    [][(Dispatched /\ IsDirEvent(Head(queue), "deleted")) =>
       LET deleted_dir == relpath(Head(queue).src_path, base)
       IN  /\ \A d \in deployments :
                 d.deployment_dir # deleted_dir => d \in deployments'
           /\ ~Known(deleted_dir) =>
                 /\ deployments' = deployments
                 /\ users' = users
                 /\ last'.raised = NoException]_vars

\* A directory below a deployment directory was deleted and the event handled
\* while the Deployment of the directory above it is on record.
C21_Witness ==
    /\ last.event = DirDeletedEvent(D_a_g1_s)
    /\ Known(relpath(D_a_g1, base))
    /\ observer = "running"

\* C22: a file event looks up the Deployment whose deployment_dir is the
\* first two components <user>/<deployment> of the path under the root, also
\* for a file in a subdirectory of the deployment directory.
C22_LookupByFirstTwoComponents ==
    [][(/\ Dispatched
        /\ IsFileEvent(Head(queue))
        /\ str_in(base, Head(queue).src_path)
        /\ InsideRoot(EventFile(Head(queue)))
        /\ Len(RelParts(EventFile(Head(queue)))) >= 3
        /\ ~startswith(basename(EventFile(Head(queue))), DOT)
        /\ ~IsIntakeEvent(Head(queue))) =>
       LET parts == RelParts(EventFile(Head(queue)))
       IN  last'.lookups = <<path_join(parts[1], parts[2])>>]_vars

\* C24: an event whose final path segment starts with a dot is ignored,
\* whatever its kind: no Deployment is created, saved or deleted and no flag
\* is touched.
C24_DotPrefixedIsIgnored ==
    [][(/\ Dispatched
        /\ startswith(basename(IF Head(queue).is_directory THEN Head(queue).src_path
                               ELSE EventFile(Head(queue))), DOT)) =>
       /\ deployments' = deployments
       /\ flags' = flags
       /\ last'.saves = <<>>
       /\ last'.touched = <<>>]_vars

\* C23: the effect of a file-moved event depends only on the destination
\* path: it is the effect of a file-created event for the destination, and a
\* wmoid.txt moved into the directory of a known Deployment sets wmo_id from
\* the file at the destination.
C23_MoveDependsOnDestinationOnly ==
    [][(/\ Dispatched
        /\ IsFileEvent(Head(queue))
        /\ Head(queue).event_type = "moved") =>
       LET dest == Head(queue).dest_path
       IN  /\ \E w \in on_created(StartWorld, FileCreatedEvent(dest)) :
                 /\ deployments' = w.deployments
                 /\ flags' = w.flags
                 /\ symlinks' = w.symlinks
                 /\ last'.raised = w.raised
           /\ (/\ basename(dest) = WMOID_TXT
               /\ Known(relpath(dirname(dest), base))
               /\ files[dest] # None) =>
                 \E d \in deployments' :
                     /\ d.deployment_dir = relpath(dirname(dest), base)
                     /\ d.wmo_id = strip(readline(files[dest]))]_vars

\* The ways of writing name as <callsign>_<timestamp> with no underscore in
\* the callsign: one if name has an underscore, none otherwise.
FirstUnderscoreSplits(name) ==
    {<<SubSeq(name, 1, k - 1), SubSeq(name, k + 1, Len(name))>> :
        k \in {i \in 1..Len(name) :
                  name[i] = "_" /\ \A j \in 1..(i - 1) : name[j] # "_"}}

\* The timestamp without one trailing Z.
WithoutOneZ(timestamp) ==
    IF timestamp # <<>> /\ timestamp[Len(timestamp)] = "Z"
    THEN SubSeq(timestamp, 1, Len(timestamp) - 1)
    ELSE timestamp

\* The directories of <root>/navoceano whose name starts with the callsign.
DirsStartingWith(callsign) ==
    {d \in dirs : dirname(d) = D_navoceano /\ startswith(basename(d), callsign)}

\* C25: the raw name of a .nc intake file is split at its first underscore
\* only and one trailing Z is removed from the timestamp; when no directory
\* of the callsign exists, <callsign>-<timestamp> is the new directory under
\* navoceano/ and the deployment name.  An intake file without the .nc
\* extension is ignored.
C25_NormalizedName ==
    [][(/\ Dispatched
        /\ IsIntakeEvent(Head(queue))
        /\ str_in(base, Head(queue).src_path)
        /\ ~startswith(basename(EventFile(Head(queue))), DOT)) =>
       IF ~endswith(basename(EventFile(Head(queue))), NC)
       THEN /\ deployments' = deployments
            /\ dirs' = dirs
            /\ symlinks' = symlinks
            /\ flags' = flags
            /\ last'.calls = <<>>
            /\ last'.raised = NoException
       ELSE \A split \in FirstUnderscoreSplits(RawName(Head(queue))) :
               LET deployment_name == split[1] \o <<"-">> \o WithoutOneZ(split[2])
                   directory == Under(<<NAVOCEANO, deployment_name>>)
               IN  DirsStartingWith(split[1]) = {} =>
                       /\ dirs' = dirs \cup {directory}
                       /\ last'.calls = <<<<NAVOCEANO, deployment_name>>>>
                       /\ \A l \in symlinks' \ symlinks : dirname(l.link) = directory
                       /\ (/\ HasUser(NAVOCEANO)
                           /\ \A d \in deployments : d.name # deployment_name) =>
                             \E d \in deployments' \ deployments :
                                 /\ d.name = deployment_name
                                 /\ d.deployment_dir = path_join(NAVOCEANO, deployment_name)]_vars

\* The three uploads were sorted into the directories of their names, the
\* one of the documented example among them, and the file that is no netCDF
\* file left no trace.
C25_Witness ==
    /\ {d \in dirs : dirname(d) = D_navoceano /\ d # D_intake}
           = {Under(<<NAVOCEANO, N_unit42>>), Under(<<NAVOCEANO, N_v_1_2>>)}
    /\ \E d \in deployments :
           d.name = N_unit42 /\ d.deployment_dir = path_join(NAVOCEANO, N_unit42)
    /\ \E d \in deployments :
           d.name = N_v_1_2 /\ d.deployment_dir = path_join(NAVOCEANO, N_v_1_2)
    /\ last.event = FileCreatedEvent(Under(<<NAVOCEANO, HURRICANES, F_w_4_txt>>))

\* The symlinks the handled event has made.
NewLinks == symlinks' \ symlinks

\* C26 as stated: whenever the normalizer creates a symlink in
\* navoceano/<name>, a Deployment with deployment_dir navoceano/<name> exists
\* at that moment.
C26_LinkHasItsDeployment ==
    [][Dispatched =>
       \A l \in NewLinks :
           \E d \in deployments' : d.deployment_dir = relpath(dirname(l.link), base)]_vars

\* C26, amended: when the User navoceano is registered and no Deployment of
\* another directory has the name <name>, a Deployment with deployment_dir
\* navoceano/<name> exists at the moment the normalizer creates a symlink in
\* navoceano/<name>, and the file event of the symlink is queued behind it.
C26_LinkHasItsDeploymentIfUserIsRegistered ==
    [][Dispatched =>
       \A l \in NewLinks :
           LET deployment_dir == relpath(dirname(l.link), base)
           IN  (/\ HasUser(NAVOCEANO)
                /\ \A d \in deployments :
                       d.name = basename(dirname(l.link)) => d.deployment_dir = deployment_dir) =>
                  /\ \E d \in deployments' : d.deployment_dir = deployment_dir
                  /\ \E i \in 1..Len(queue') : queue'[i] = FileCreatedEvent(l.link)]_vars

\* The upload of the documented example was linked while the User navoceano
\* was registered: the link and the Deployment of its directory both exist.
C26_Witness ==
    /\ last.event = FileCreatedEvent(Under(<<NAVOCEANO, HURRICANES, F_unit42_nc>>))
    /\ HasUser(NAVOCEANO)
    /\ \E l \in symlinks : dirname(l.link) = Under(<<NAVOCEANO, N_unit42>>)
    /\ Known(path_join(NAVOCEANO, N_unit42))

\* C27: the symlink made for the raw intake file <callsign>_<timestamp>[Z].<ext>
\* is named <callsign>-<timestamp>.<ext>, with a dash.
C27_LinkNamedWithDash ==
    [][(Dispatched /\ IsIntakeEvent(Head(queue))) =>
       \A l \in NewLinks :
           \E split \in FirstUnderscoreSplits(RawName(Head(queue))) :
               basename(l.link) = split[1] \o <<"-">> \o WithoutOneZ(split[2])
                                      \o splitext(basename(EventFile(Head(queue))))[2]]_vars

\* The raw intake file of the event has been linked by an earlier event.
AlreadyLinked(e) == \E l \in symlinks : l.target = EventFile(e)

\* C28: handling the event of a raw intake file again ends in the state the
\* first handling ended in: still one target directory, one symlink and one
\* Deployment for the file, and no exception leaves the handler.
C28_RepeatIsIdempotent ==
    [][(/\ Dispatched
        /\ IsNavoUpload(Head(queue))
        /\ AlreadyLinked(Head(queue))) =>
       /\ deployments' = deployments
       /\ dirs' = dirs
       /\ symlinks' = symlinks
       /\ flags' = flags
       /\ last'.raised = NoException
       /\ Cardinality({l \in symlinks' : l.target = EventFile(Head(queue))}) = 1]_vars

\* Nothing the watcher writes has changed and the handler has returned.
NothingChanged ==
    /\ deployments' = deployments
    /\ dirs' = dirs
    /\ symlinks' = symlinks
    /\ flags' = flags
    /\ last'.saves = <<>>
    /\ last'.touched = <<>>
    /\ last'.raised = NoException

\* C29 as stated: a file event in a directory for which no Deployment with
\* that deployment_dir exists changes nothing.
C29_UnknownDirectoryChangesNothing ==
    [][(/\ Dispatched
        /\ IsFileEvent(Head(queue))
        /\ ~Known(EventDir(Head(queue)))) => NothingChanged]_vars

\* C29, amended: a file event in a directory other than the NAVOCEANO intake
\* directory for which no Deployment with that deployment_dir exists changes
\* nothing: no Deployment is created or saved, no flag is touched, the file
\* is not read and the handler returns normally.
C29_UnknownDeploymentDirChangesNothing ==
    [][(/\ Dispatched
        /\ IsFileEvent(Head(queue))
        /\ ~IsIntakeEvent(Head(queue))
        /\ ~Known(EventDir(Head(queue)))) => NothingChanged]_vars

\* A wmoid.txt event was handled for a/g-1 while no Deployment of a/g-1 was
\* on record: the lookup was made and the handler returned.
C29_Witness ==
    /\ last.lookups = <<path_join(U_a, N_g1)>>
    /\ \/ last.event = FileCreatedEvent(Under(<<U_a, N_g1, WMOID_TXT>>))
       \/ last.event = FileMovedEvent(Under(<<U_a, N_g1, F_wmoid_tmp>>),
                                      Under(<<U_a, N_g1, WMOID_TXT>>))
    /\ ~Known(path_join(U_a, N_g1))
    /\ observer = "running"

\* C30: an extra_atts.json event for a known Deployment saves that Deployment
\* exactly once, changes no field of it other than updated, and touches no
\* flag.
C30_ExtraAttsOnlySaves ==
    [][(/\ Dispatched
        /\ IsFileEvent(Head(queue))
        /\ str_in(base, Head(queue).src_path)
        /\ basename(EventFile(Head(queue))) = EXTRA_ATTS_JSON
        /\ Known(EventDir(Head(queue)))) =>
       /\ last'.saves = <<EventDir(Head(queue))>>
       /\ last'.touched = <<>>
       /\ flags' = flags
       /\ last'.raised = NoException
       /\ Cardinality(deployments') = Cardinality(deployments)
       /\ \A d \in deployments :
              IF d.deployment_dir = EventDir(Head(queue))
              THEN \E saved \in deployments' : [saved EXCEPT !.updated = d.updated] = d
              ELSE d \in deployments']_vars

\* extra_atts.json was written into the directory of the recorded Deployment
\* a/g-1 and the event handled: the Deployment was saved.
C30_Witness ==
    /\ last.saves = <<path_join(U_a, N_g1)>>
    /\ last.event = FileCreatedEvent(F_a_g1_extra_atts)
    /\ \E d \in deployments : d.deployment_dir = path_join(U_a, N_g1) /\ d.updated > 0

\* C31: a file event in a known deployment directory whose file name is
\* neither wmoid.txt nor extra_atts.json and whose extension does not
\* contain .nc is a no-op: nothing is saved, no field changes and no flag is
\* touched.
C31_OtherFileIsNoOp ==
    [][(/\ Dispatched
        /\ IsFileEvent(Head(queue))
        /\ Known(EventDir(Head(queue)))
        /\ basename(EventFile(Head(queue))) \notin {WMOID_TXT, EXTRA_ATTS_JSON}
        /\ ~str_in(NC, splitext(basename(EventFile(Head(queue))))[2])) =>
       NothingChanged]_vars

\* The temporary upload wmoid.tmp was written into the directory of the
\* recorded Deployment a/g-1 and its event handled.
C31_Witness ==
    /\ last.lookups = <<path_join(U_a, N_g1)>>
    /\ last.event = FileCreatedEvent(Under(<<U_a, N_g1, F_wmoid_tmp>>))
    /\ Known(path_join(U_a, N_g1))

\* C32: after the directory-created event of b/g-1 was dropped for want of
\* a User b and the User was registered afterwards, a file event in b/g-1 is
\* applied to a Deployment of that directory instead of being dropped.
\* (User b is registered only by RegisterMissingUser, after the drop.)
C32_FileEventSucceedsAfterUserIsRegistered ==
    [][(/\ Dispatched
        /\ IsFileEvent(Head(queue))
        /\ EventFile(Head(queue)) = F_b_g1_x_nc
        /\ HasUser(U_b)) =>
       /\ last'.saves = <<path_join(U_b, N_g1)>>
       /\ \E d \in deployments' : d.deployment_dir = path_join(U_b, N_g1)]_vars

\* The worlds reached by handling event second after event first, starting
\* from the present state.
HandledInOrder(first, second) ==
    UNION {on_created(w, second) : w \in on_created(StartWorld, first)}

\* C33: handling the directory-created event of a/g-1 and the file-created
\* event of a/g-1/x.nc in either order ends in the same Deployment record,
\* saved for the file, and in the same set of flag files.
C33_EitherOrderConverges ==
    (/\ HasUser(U_a)
     /\ D_a_g1 \in dirs
     /\ files[F_a_g1_x_nc] # None) =>
        \A x \in HandledInOrder(DirCreatedEvent(D_a_g1), FileCreatedEvent(F_a_g1_x_nc)) :
        \A y \in HandledInOrder(FileCreatedEvent(F_a_g1_x_nc), DirCreatedEvent(D_a_g1)) :
            /\ x.deployments = y.deployments
            /\ x.flags = y.flags
            /\ \E d \in x.deployments : d.deployment_dir = path_join(U_a, N_g1)
            /\ \E i \in 1..Len(x.saves) : x.saves[i] = path_join(U_a, N_g1)
            /\ \E i \in 1..Len(y.saves) : y.saves[i] = path_join(U_a, N_g1)

\* The callsign in the name of the raw intake file a symlink points to.
CallsignOfLink(l) ==
    {split[1] : split \in FirstUnderscoreSplits(splitext(basename(l.target))[1])}

\* C34: two intake files whose callsigns differ are never linked into the
\* same deployment directory, and so never share a Deployment record.
C34_CallsignsNeverShareADirectory ==
    \A l1 \in symlinks : \A l2 \in symlinks :
        dirname(l1.link) = dirname(l2.link) => CallsignOfLink(l1) = CallsignOfLink(l2)

\* The requests poll_erddap has sent that were answered with HTTP 200.
AnsweredOK(p) ==
    {i \in 1..Len(p.requests) : p.requests[i] = Answered(HTTP_OK)}

PollSafe ==
    /\ Len(replicate.requests) <= replicate.attempts
    \* nothing is requested after an answer of 200
    /\ AnsweredOK(replicate) \subseteq {Len(replicate.requests)}
    /\ replicate.at = "return" =>
          /\ AnsweredOK(replicate) # {} => replicate.returned = "True"
          /\ replicate.returned = "True" => AnsweredOK(replicate) # {}
          /\ (AnsweredOK(replicate) = {} /\ ~replicate.session_error) =>
                 /\ replicate.returned = "False"
                 /\ Len(replicate.requests) = replicate.attempts
    /\ replicate.at # "return" => replicate.returned = "None"

\* C38: poll_erddap sends at most `attempts` requests, returns True as soon
\* as one is answered with HTTP 200, returns False when all `attempts`
\* requests got another status or raised, and returns in the end whatever
\* the responses are.
C38_PollIsBoundedAndReturns == []PollSafe /\ <>(replicate.at = "return")

\* Called with attempts = 3, poll_erddap saw an exception and an answer
\* other than 200 and returned True on the third request.
C38_Witness ==
    /\ replicate.at = "return"
    /\ replicate.returned = "True"
    /\ replicate.attempts = 3
    /\ Len(replicate.requests) = 3
    /\ replicate.requests[1] = RequestFailed
    /\ replicate.requests[2] = Answered(503)

\* C35: two replicate processes started with the same lock file never both
\* run the deployment synchronisation at the same time.
C35_OneProcessSynchronises ==
    Cardinality({self \in Processes : replicate.at[self] = "sync"}) <= 1

\* The positions in did of the operation op with argument arg.
Did(op, arg) ==
    {i \in 1..Len(replicate.did) : replicate.did[i] = <<op, arg>>}

DidRetrieve ==
    {i \in 1..Len(replicate.did) : replicate.did[i][1] = "retrieve_data"}

\* C36: the public flag is touched only after the private flag was touched
\* and the poll of the private ERDDAP returned True; when the poll fails no
\* data is retrieved and the public flag is not touched; when the
\* deployment was modified 24 hours ago or more and force is not set, no
\* flag is touched and no data retrieved.
C36_PublicAfterPrivateAndPoll ==
    /\ \A i \in Did("touch_erddap", "flags_public") :
           \E j \in Did("touch_erddap", "flags_private") :
           \E k \in Did("poll_erddap", "True") : j < k /\ k < i
    /\ \A i \in DidRetrieve : \E k \in Did("poll_erddap", "True") : k < i
    /\ Did("poll_erddap", "False") # {} =>
           DidRetrieve = {} /\ Did("touch_erddap", "flags_public") = {}
    /\ (~replicate.force /\ replicate.currentEpoch - replicate.mTime >= 24 * 60 * 60) =>
           replicate.did = <<>>

\* A synchronisation that was not forced ran to its end: private flag,
\* successful poll, download, public flag, download for THREDDS.
C36_Witness ==
    /\ replicate.at = "return"
    /\ ~replicate.force
    /\ replicate.did = <<<<"touch_erddap", "flags_private">>, <<"poll_erddap", "True">>,
                         <<"retrieve_data", "path2pub">>, <<"touch_erddap", "flags_public">>,
                         <<"retrieve_data", "path2thredds">>>>

\* C37: retrieve_data replaces the published file only by renaming a
\* completely downloaded temporary file that passed the validity check; it
\* gives up after at most 5 failed attempts; in every outcome the published
\* file is untouched or replaced by a valid download, and the function
\* returns without raising.
C37_PublishedIsPreviousOrValid ==
    /\ replicate.published \in {replicate.before, "valid"}
    /\ replicate.published # replicate.before => replicate.renamed = "valid"
    /\ replicate.failures <= 5
    /\ replicate.raised = NoException

\* C39: after main, every deployment that is completed and archive_safe and
\* whose source file exists has its archive file in NCEI_DIR, without a
\* DO-NOT-ARCHIVE marker; main marks and removes only archive files of
\* deployments that are not active.
C39_ActiveDeploymentsAreArchived ==
    archive.last = <<"main returned", NCEI_DIR>>
    => \A d \in get_active_deployments(archive) :
           path_exists(archive, filepath_of(d.deployment_dir))
           => /\ path_exists(archive, ArchivePath(filepath_of(d.deployment_dir)))
              /\ ~path_exists(archive,
                              ArchivePath(filepath_of(d.deployment_dir)) \o DNA_SUFFIX)

\* C40: datasets.xml is replaced only by renaming a completely written
\* temporary file: at every point of build_datasets_xml, also after an
\* OSError while the temporary file is written, datasets.xml is the previous
\* complete catalog or the new complete one, and build_datasets_xml returns
\* without raising in that error case.
C40_CatalogIsCompleteAndNoRaise ==
    /\ \/ catalog.datasets_xml = catalog.before
       \/ catalog.datasets_xml =
              CompleteCatalog(catalog.deployments \cap catalog.chunks,
                              catalog.inactive_deployment_names.names)
    /\ catalog.caught # <<>> => catalog.raised = NoException

====
